---- MODULE Spec2Model ----
(***************************************************************************)
(* scx-slo: the SLO-aware sched_ext scheduler (src/src/scx_slo.bpf.c) and  *)
(* the two writers of its configuration map (src/src/config.c and          *)
(* src/src/k8s-watcher/main.go).                                           *)
(*                                                                         *)
(* u64 values are kept at their full width.  TLC's integers are 32 bits,   *)
(* so a u64 is a tuple of four 16-bit limbs, most significant first, and   *)
(* the arithmetic below is the machine's: addition, subtraction and        *)
(* multiplication wrap modulo 2^64, division truncates.                    *)
(***************************************************************************)
EXTENDS Integers, Sequences, FiniteSets, TLC

(* ------------------------------------------------------------------ u64 *)

Limb == 65536

U64(n) == <<0, 0, n \div Limb, n % Limb>>

U64Lt(a, b) ==
    \/ a[1] < b[1]
    \/ a[1] = b[1] /\ a[2] < b[2]
    \/ a[1] = b[1] /\ a[2] = b[2] /\ a[3] < b[3]
    \/ a[1] = b[1] /\ a[2] = b[2] /\ a[3] = b[3] /\ a[4] < b[4]

U64Gt(a, b) == U64Lt(b, a)

U64Le(a, b) == ~U64Lt(b, a)

U64Add(a, b) ==
    LET s4 == a[4] + b[4]
        s3 == a[3] + b[3] + (s4 \div Limb)
        s2 == a[2] + b[2] + (s3 \div Limb)
        s1 == a[1] + b[1] + (s2 \div Limb)
    IN  <<s1 % Limb, s2 % Limb, s3 % Limb, s4 % Limb>>

U64Sub(a, b) ==
    LET d4 == a[4] - b[4]
        d3 == a[3] - b[3] - (IF d4 < 0 THEN 1 ELSE 0)
        d2 == a[2] - b[2] - (IF d3 < 0 THEN 1 ELSE 0)
        d1 == a[1] - b[1] - (IF d2 < 0 THEN 1 ELSE 0)
    IN  <<d1 % Limb, d2 % Limb, d3 % Limb, d4 % Limb>>

(* a * k for a factor k below 2^15 *)
U64Mul(a, k) ==
    LET p4 == a[4] * k
        p3 == a[3] * k + (p4 \div Limb)
        p2 == a[2] * k + (p3 \div Limb)
        p1 == a[1] * k + (p2 \div Limb)
    IN  <<p1 % Limb, p2 % Limb, p3 % Limb, p4 % Limb>>

(* a / k for a divisor k in 1 .. 2^15 - 1 *)
U64Div(a, k) ==
    LET r1 == a[1] % k
        n2 == r1 * Limb + a[2]
        r2 == n2 % k
        n3 == r2 * Limb + a[3]
        r3 == n3 % k
        n4 == r3 * Limb + a[4]
    IN  <<a[1] \div k, n2 \div k, n3 \div k, n4 \div k>>

U64_MAX == <<Limb - 1, Limb - 1, Limb - 1, Limb - 1>>

(* ------------------------------------------------------------ constants *)

NSEC_PER_MSEC == 1000000
NSEC_PER_SEC == 1000000000

DEFAULT_BUDGET_NS == U64Mul(U64(NSEC_PER_MSEC), 100)
MIN_BUDGET_NS == U64Mul(U64(NSEC_PER_MSEC), 1)
MAX_BUDGET_NS == U64Mul(U64(NSEC_PER_SEC), 10)

MIN_IMPORTANCE == 1
MAX_IMPORTANCE == 100

MAX_EVENTS_PER_SEC == 1000
RATE_LIMIT_WINDOW_NS == U64Mul(U64(NSEC_PER_SEC), 1)

MAX_CGROUPS == 10000
MAX_TASKS == 100000

(* --------------------------------------------------------------- bounds *)

(* times the clock may advance in one behaviour *)
MaxTicks == 3
(* records the event ring holds before bpf_ringbuf_reserve fails; the      *)
(* program's ring holds RINGBUF_SIZE bytes                                 *)
MaxRingRecords == 2
(* cap on each per-CPU statistics counter *)
MaxStat == 2
(* deadline misses the stopping handler detects in one behaviour *)
MaxMisses == 3
(* seconds that pass while the agent is watched *)
MaxAgentTicks == 1
(* records the consumer accepts in one behaviour *)
MaxRecords == 4
(* events the agent handles while its threads are followed step by step *)
MaxEvents == 2
(* exits of the scheduler with a restart code in one behaviour *)
MaxRestarts == 2

(* pids, cgroup ids and CPUs of the model *)
Tids == {1, 2}
Wids == {1, 2}
Cpus == {0}

(* what the configuration sources are given: a budget in ms and an         *)
(* importance, 0 standing for a missing or unparsable value; cgroup id 0   *)
(* is a path that does not resolve                                         *)
ConfigWids == {0, 1}
ConfigBudgetsMs == {0, 1, 50, 20000}
ConfigImportances == {0, 1, 90, 101}

(* ---------------------------------------------------------------- state *)

VARIABLES
    clock,             \* bpf_ktime_get_ns(), a u64
    ticks,             \* how many times the clock has advanced
    slo_map,           \* cgroup id -> struct slo_cfg
    task_ctx_map,      \* pid -> struct slo_task_ctx
    rate_limit_state,  \* per CPU: event_count, window_start
    deadline_events,   \* the ring buffer: records not yet consumed
    stats,             \* per CPU: <<local, global>> counters
    rl_obs,            \* per CPU: what the limiter's callers have seen
    v_cfg,             \* the candidate handed to validate_slo_cfg
    v_res,             \* what validate_slo_cfg returned for it
    misses,            \* deadline misses detected so far
    others,            \* entries the maps hold for keys outside Wids, Tids
    agent,             \* the agent's counters (static __u64 of scx_slo.c)
    dsq,               \* SHARED_DSQ: the tasks queued, head first
    stopped,           \* pids whose last callback was stopping(!runnable)
    inflight,          \* per CPU: the callback it is in the middle of
    popped,            \* the entries dispatched since the last enqueue
    host,              \* the calls the host has made to this scheduler
    main,              \* the agent process: where main() is, its flags
    thr                \* the agent's threads around stats_lock

vars == <<clock, ticks, slo_map, task_ctx_map, rate_limit_state,
          deadline_events, stats, rl_obs, v_cfg, v_res, misses,
          others, agent, dsq, stopped, inflight, popped, host, main, thr>>

(* the host has made no call yet: the enqueue calls, the select_cpu calls  *)
(* that found an idle CPU, and the CPU the last select_cpu call returned   *)
NoCalls == [enqueues |-> 0, idle_selects |-> 0, ret |-> -1]

(* the agent in its main loop: the scheduler is attached and the health    *)
(* server's thread is polling its socket.  pc is the position of main(),   *)
(* thread that of health_server_thread; rb, link and skel tell whether the *)
(* pointers of main are set; uei is what the scheduler recorded when the   *)
(* kernel made it exit, restarts the restart codes recorded so far         *)
MainLoop ==
    [pc |-> "loop", scheduler_attached |-> 1, exit_req |-> 0,
     health_thread_running |-> TRUE, thread |-> "polling",
     health_port |-> 8080, rb |-> TRUE, link |-> TRUE, skel |-> TRUE,
     uei |-> "none", restarts |-> 0]

(* a pointer is NULL or points to a value *)
NULL == [null |-> TRUE]
Ptr(v) == [null |-> FALSE, val |-> v]

(* a CPU that is in no callback *)
Idle == [op |-> "idle"]

bpf_map_lookup_elem(map, key) ==
    IF key \in DOMAIN map THEN Ptr(map[key]) ELSE NULL

(* a hash map that takes a new key whatever it holds *)
bpf_map_update_ok_unbounded(map, key, held, max_entries) == TRUE

(* BPF_ANY on a hash map: a new key is refused once max_entries are held;  *)
(* held counts the entries of keys that map does not list                  *)
bpf_map_update_ok(map, key, held, max_entries) ==
    key \in DOMAIN map \/ Cardinality(DOMAIN map) + held < max_entries

(* a map that makes room for a new key by dropping one it holds *)
bpf_map_update_elem_evicting(map, key, value, held, max_entries) ==
    LET full == Cardinality(DOMAIN map) + held >= max_entries
        keep == IF key \in DOMAIN map \/ ~full \/ DOMAIN map = {}
                THEN DOMAIN map
                ELSE DOMAIN map \ {CHOOSE k \in DOMAIN map : TRUE}
    IN  [k \in keep \cup {key} |-> IF k = key THEN value ELSE map[k]]

bpf_map_update_elem(map, key, value, held, max_entries) ==
    IF bpf_map_update_ok(map, key, held, max_entries)
    THEN [k \in DOMAIN map \cup {key} |-> IF k = key THEN value ELSE map[k]]
    ELSE map

bpf_map_delete_elem(map, key) ==
    [k \in DOMAIN map \ {key} |-> map[k]]

(* ------------------------------------------------------------ validator *)

validate_slo_cfg(cfg) ==
    IF cfg.null THEN -1
    ELSE IF \/ cfg.val.budget_ns = U64(0)
            \/ U64Lt(cfg.val.budget_ns, MIN_BUDGET_NS)
            \/ U64Gt(cfg.val.budget_ns, MAX_BUDGET_NS)
         THEN -1
    ELSE IF \/ cfg.val.importance < MIN_IMPORTANCE
            \/ cfg.val.importance > MAX_IMPORTANCE
         THEN -1
    ELSE 0

(* the stored budget taken without validating the entry *)
get_safe_budget_unvalidated(cgroup_id) ==
    LET cfg == bpf_map_lookup_elem(slo_map, cgroup_id)
    IN  IF cfg.null THEN DEFAULT_BUDGET_NS ELSE cfg.val.budget_ns

(* the default budget, whatever the map holds *)
get_safe_budget_default(cgroup_id) == DEFAULT_BUDGET_NS

get_safe_budget(cgroup_id) ==
    LET cfg == bpf_map_lookup_elem(slo_map, cgroup_id)
    IN  IF cfg.null THEN DEFAULT_BUDGET_NS
        ELSE IF validate_slo_cfg(cfg) # 0 THEN DEFAULT_BUDGET_NS
        ELSE cfg.val.budget_ns

(* --------------------------------------------------------- rate limiter *)

(* the limit test made with > : one call too many is let through *)
is_rate_limited_one_more(st, now) ==
    LET s1 == IF U64Gt(U64Sub(now, st.window_start), RATE_LIMIT_WINDOW_NS)
              THEN [event_count |-> 0, window_start |-> now]
              ELSE st
    IN  IF s1.event_count > MAX_EVENTS_PER_SEC
        THEN [ret |-> TRUE, state |-> s1]
        ELSE [ret |-> FALSE,
              state |-> [s1 EXCEPT !.event_count = s1.event_count + 1]]

(* the window test made with >= : the window is reset one ns early *)
is_rate_limited_early_reset(st, now) ==
    LET s1 == IF U64Le(RATE_LIMIT_WINDOW_NS, U64Sub(now, st.window_start))
              THEN [event_count |-> 0, window_start |-> now]
              ELSE st
    IN  IF s1.event_count >= MAX_EVENTS_PER_SEC
        THEN [ret |-> TRUE, state |-> s1]
        ELSE [ret |-> FALSE,
              state |-> [s1 EXCEPT !.event_count = s1.event_count + 1]]

(* the count reset without a new window_start *)
is_rate_limited_keeping_window(st, now) ==
    LET s1 == IF U64Gt(U64Sub(now, st.window_start), RATE_LIMIT_WINDOW_NS)
              THEN [event_count |-> 0, window_start |-> st.window_start]
              ELSE st
    IN  IF s1.event_count >= MAX_EVENTS_PER_SEC
        THEN [ret |-> TRUE, state |-> s1]
        ELSE [ret |-> FALSE,
              state |-> [s1 EXCEPT !.event_count = s1.event_count + 1]]

(* the value returned, and the CPU's limiter state it leaves *)
is_rate_limited(st, now) ==
    LET s1 == IF U64Gt(U64Sub(now, st.window_start), RATE_LIMIT_WINDOW_NS)
              THEN [event_count |-> 0, window_start |-> now]
              ELSE st
    IN  IF s1.event_count >= MAX_EVENTS_PER_SEC
        THEN [ret |-> TRUE, state |-> s1]
        ELSE [ret |-> FALSE,
              state |-> [s1 EXCEPT !.event_count = s1.event_count + 1]]

(* --------------------------------------------------------- task context *)

(* the map after get_task_ctx(pid); the context returned is the entry of   *)
(* pid in it, NULL when there is none                                      *)
get_task_ctx(map, pid) ==
    IF pid \in DOMAIN map THEN map
    ELSE bpf_map_update_elem(map, pid,
             [deadline |-> U64(0), start_time |-> U64(0),
              budget_ns |-> U64(0), valid |-> 0], others.task, MAX_TASKS)

(* --------------------------------------------------------------- enqueue *)

(* the importance read from the map and used as it is *)
enqueue_importance_unclamped(cfg) ==
    IF ~cfg.null THEN cfg.val.importance ELSE 50

(* simple_enqueue: the importance read from the map, clamped *)
enqueue_importance(cfg) ==
    LET importance == IF ~cfg.null THEN cfg.val.importance ELSE 50
        low == IF importance < 1 THEN 1 ELSE importance
    IN  IF low > 100 THEN 100 ELSE low

(* a weighting that grows with the importance *)
effective_budget_inverted(budget_ns, importance) ==
    U64Div(U64Mul(budget_ns, importance), 100)

(* the budget taken whole, whatever the importance *)
effective_budget_unscaled(budget_ns, importance) == budget_ns

(* simple_enqueue: the weighted budget *)
effective_budget(budget_ns, importance) ==
    LET scaling_factor == 101 - importance
    IN  U64Div(U64Mul(budget_ns, scaling_factor), 100)

(* the sum left to wrap around *)
enqueue_deadline_wrapping(now, eff) == U64Add(now, eff)

(* simple_enqueue: the deadline, saturating *)
enqueue_deadline(now, eff) ==
    IF U64Gt(eff, U64Sub(U64_MAX, now)) THEN U64_MAX ELSE U64Add(now, eff)

(* a counter kept in one slot for all CPUs, each CPU adding to the value   *)
(* it last saw in its own                                                  *)
stat_inc_unsharded(cpu, idx) ==
    [stats EXCEPT ![0][idx] = stats[cpu][idx] + 1]

(* stat_inc(idx) on cpu: the slot of that CPU in the per-CPU array *)
stat_inc(cpu, idx) ==
    [stats EXCEPT ![cpu][idx] = stats[cpu][idx] + 1]

(* ------------------------------------------------------------ SHARED_DSQ *)

(* the queue without the task: the host takes a task off the queue it is   *)
(* on before it hands the task to ops.enqueue again                        *)
dsq_dequeue(q, pid) == SelectSeq(q, LAMBDA e : e.pid # pid)

(* entries of q that stay in front of a new entry of vtime v: those that   *)
(* are not after it, the ones of equal vtime included                      *)
dsq_front(q, v) ==
    IF \E i \in 1..Len(q) : q[i].priq /\ U64Lt(v, q[i].vtime)
    THEN (CHOOSE i \in 1..Len(q) :
              /\ q[i].priq /\ U64Lt(v, q[i].vtime)
              /\ \A j \in 1..(i - 1) :
                     ~(q[j].priq /\ U64Lt(v, q[j].vtime))) - 1
    ELSE Len(q)

(* an insert that puts the task at the head whatever its vtime *)
scx_bpf_dsq_insert_vtime_at_head(q, pid, vtime) ==
    <<[pid |-> pid, vtime |-> vtime, priq |-> TRUE]>> \o dsq_dequeue(q, pid)

(* scx_bpf_dsq_insert_vtime(p, SHARED_DSQ, SCX_SLICE_DFL, vtime, enq_flags) *)
scx_bpf_dsq_insert_vtime(q, pid, vtime) ==
    LET r == dsq_dequeue(q, pid)
        n == dsq_front(r, vtime)
    IN  SubSeq(r, 1, n) \o <<[pid |-> pid, vtime |-> vtime, priq |-> TRUE]>>
            \o SubSeq(r, n + 1, Len(r))

(* an insert that leaves the task off the queue *)
scx_bpf_dsq_insert_dropped(q, pid) == dsq_dequeue(q, pid)

(* scx_bpf_dsq_insert(p, SHARED_DSQ, SCX_SLICE_DFL, enq_flags): at the tail *)
scx_bpf_dsq_insert(q, pid) ==
    Append(dsq_dequeue(q, pid), [pid |-> pid, vtime |-> U64(0), priq |-> FALSE])

Enqueue(cpu, pid, cg_id) ==
    /\ stats[cpu][1] < MaxStat
    /\ stats' = stat_inc(cpu, 1)
    /\ LET now == clock
           budget_ns == get_safe_budget(cg_id)
           map == get_task_ctx(task_ctx_map, pid)
           cfg == bpf_map_lookup_elem(slo_map, cg_id)
           deadline == enqueue_deadline(now,
                           effective_budget(budget_ns, enqueue_importance(cfg)))
       IN  IF pid \notin DOMAIN map
           THEN /\ task_ctx_map' = map
                /\ dsq' = scx_bpf_dsq_insert(dsq, pid)
           ELSE /\ task_ctx_map' =
                       [map EXCEPT ![pid] = [deadline |-> deadline,
                                             budget_ns |-> budget_ns,
                                             start_time |-> U64(0),
                                             valid |-> 1]]
                /\ dsq' = scx_bpf_dsq_insert_vtime(dsq, pid, deadline)
    /\ stopped' = stopped \ {pid}
    /\ popped' = <<>>
    /\ host' = [host EXCEPT !.enqueues = host.enqueues + 1]
    /\ UNCHANGED <<clock, ticks, slo_map, rate_limit_state, deadline_events,
                   rl_obs, v_cfg, v_res, misses, others, thr, main, agent, inflight>>

(* simple_dispatch: scx_bpf_dsq_move_to_local takes the head of the queue *)
Dispatch(cpu) ==
    /\ dsq # <<>>
    /\ dsq' = Tail(dsq)
    /\ popped' = Append(popped, Head(dsq))
    /\ UNCHANGED <<clock, ticks, slo_map, task_ctx_map, rate_limit_state,
                   deadline_events, stats, rl_obs, v_cfg, v_res, misses,
                   others, thr, main, host, agent, stopped, inflight>>

(* simple_enqueue in two steps, other CPUs and the writers of slo_map      *)
(* running in between.  The first step goes up to the task context: the    *)
(* counter, the clock, get_safe_budget with its lookup of slo_map, and     *)
(* get_task_ctx; without a context it ends the call on the fallback path.  *)
(* cfg is the entry that get_safe_budget's lookup returned                 *)
EnqueueBegin(cpu, pid, cg_id) ==
    /\ inflight[cpu] = Idle
    /\ stats[cpu][1] < MaxStat
    /\ stats' = stat_inc(cpu, 1)
    /\ LET map == get_task_ctx(task_ctx_map, pid)
       IN  /\ task_ctx_map' = map
           /\ IF pid \notin DOMAIN map
              THEN /\ dsq' = scx_bpf_dsq_insert(dsq, pid)
                   /\ popped' = <<>>
                   /\ UNCHANGED inflight
              ELSE /\ inflight' =
                          [inflight EXCEPT ![cpu] =
                              [op |-> "enqueue", pid |-> pid,
                               cg_id |-> cg_id, now |-> clock,
                               budget_ns |-> get_safe_budget(cg_id),
                               cfg |-> bpf_map_lookup_elem(slo_map, cg_id)]]
                   /\ UNCHANGED <<dsq, popped>>
    /\ stopped' = stopped \ {pid}
    /\ host' = [host EXCEPT !.enqueues = host.enqueues + 1]
    /\ UNCHANGED <<clock, ticks, slo_map, rate_limit_state, deadline_events,
                   rl_obs, v_cfg, v_res, misses, others, thr, main, agent>>

(* the second step: the second lookup of slo_map for the importance, the   *)
(* deadline, the stores into the context and the insert into the queue.    *)
(* The stores of a call whose context was deleted meanwhile are lost       *)
EnqueueFinish(cpu) ==
    /\ inflight[cpu].op = "enqueue"
    /\ LET e == inflight[cpu]
           cfg == bpf_map_lookup_elem(slo_map, e.cg_id)
           deadline == enqueue_deadline(e.now,
                           effective_budget(e.budget_ns,
                                            enqueue_importance(cfg)))
       IN  /\ IF e.pid \in DOMAIN task_ctx_map
              THEN task_ctx_map' =
                       [task_ctx_map EXCEPT
                           ![e.pid] = [deadline |-> deadline,
                                       budget_ns |-> e.budget_ns,
                                       start_time |-> U64(0),
                                       valid |-> 1]]
              ELSE UNCHANGED task_ctx_map
           /\ dsq' = scx_bpf_dsq_insert_vtime(dsq, e.pid, deadline)
    /\ inflight' = [inflight EXCEPT ![cpu] = Idle]
    /\ popped' = <<>>
    /\ UNCHANGED <<clock, ticks, slo_map, rate_limit_state, deadline_events,
                   stats, rl_obs, v_cfg, v_res, misses, others, thr, main, host, agent,
                   stopped>>

(* --------------------------------------------------- select_cpu, running *)

(* a select_cpu that counts every call *)
SelectCpu_counting_all(cpu, dfl, is_idle) ==
    /\ stats[cpu][0] < MaxStat
    /\ stats' = stat_inc(cpu, 0)
    /\ host' = [host EXCEPT
                    !.idle_selects = IF is_idle THEN host.idle_selects + 1
                                     ELSE host.idle_selects,
                    !.ret = dfl]
    /\ UNCHANGED <<clock, ticks, slo_map, task_ctx_map, rate_limit_state,
                   deadline_events, rl_obs, v_cfg, v_res, misses,
                   others, thr, main, agent, dsq, stopped, inflight, popped>>

(* simple_select_cpu on cpu: scx_bpf_select_cpu_dfl gives the candidate    *)
(* dfl and tells whether it is idle; the callback returns dfl.  A task     *)
(* sent to the local queue of an idle CPU never enters SHARED_DSQ          *)
SelectCpu(cpu, dfl, is_idle) ==
    /\ is_idle => stats[cpu][0] < MaxStat
    /\ stats' = IF is_idle THEN stat_inc(cpu, 0) ELSE stats
    /\ host' = [host EXCEPT
                    !.idle_selects = IF is_idle THEN host.idle_selects + 1
                                     ELSE host.idle_selects,
                    !.ret = dfl]
    /\ UNCHANGED <<clock, ticks, slo_map, task_ctx_map, rate_limit_state,
                   deadline_events, rl_obs, v_cfg, v_res, misses,
                   others, thr, main, agent, dsq, stopped, inflight, popped>>

(* a running callback that starts the context over *)
Running_starting_over(pid) ==
    /\ LET map == get_task_ctx(task_ctx_map, pid)
       IN  IF pid \in DOMAIN map /\ map[pid].valid # 0
           THEN task_ctx_map' =
                    [map EXCEPT ![pid] = [deadline |-> U64(0),
                                          budget_ns |-> U64(0),
                                          start_time |-> clock,
                                          valid |-> 1]]
           ELSE task_ctx_map' = map
    /\ stopped' = stopped \ {pid}
    /\ UNCHANGED <<clock, ticks, slo_map, rate_limit_state, deadline_events,
                   stats, rl_obs, v_cfg, v_res, misses,
                   others, thr, main, host, agent, dsq, inflight, popped>>

Running(pid) ==
    /\ LET map == get_task_ctx(task_ctx_map, pid)
       IN  IF pid \in DOMAIN map /\ map[pid].valid # 0
           THEN task_ctx_map' = [map EXCEPT ![pid].start_time = clock]
           ELSE task_ctx_map' = map
    /\ stopped' = stopped \ {pid}
    /\ UNCHANGED <<clock, ticks, slo_map, rate_limit_state, deadline_events,
                   stats, rl_obs, v_cfg, v_res, misses,
                   others, thr, main, host, agent, dsq, inflight, popped>>

Enable(pid) ==
    /\ task_ctx_map' = get_task_ctx(task_ctx_map, pid)
    /\ stopped' = stopped \ {pid}
    /\ UNCHANGED <<clock, ticks, slo_map, rate_limit_state, deadline_events,
                   stats, rl_obs, v_cfg, v_res, misses,
                   others, thr, main, host, agent, dsq, inflight, popped>>

(* simple_enable in the three steps of its get_task_ctx, other CPUs        *)
(* running in between.  The first step is the lookup: a context that is    *)
(* found is returned.  v_res is what the call returned, and for which pid  *)
EnableLookup(cpu, pid) ==
    /\ inflight[cpu] = Idle
    /\ LET ctx == bpf_map_lookup_elem(task_ctx_map, pid)
       IN  IF ~ctx.null
           THEN /\ v_res' = [pid |-> pid, ctx |-> ctx]
                /\ UNCHANGED inflight
           ELSE /\ inflight' = [inflight EXCEPT ![cpu] =
                                   [op |-> "update", pid |-> pid]]
                /\ UNCHANGED v_res
    /\ stopped' = stopped \ {pid}
    /\ UNCHANGED <<clock, ticks, slo_map, task_ctx_map, rate_limit_state,
                   deadline_events, stats, rl_obs, v_cfg, misses,
                   others, thr, main, host, agent, dsq, popped>>

(* the second step: the zeroed context is stored with BPF_ANY, over        *)
(* whatever entry the pid has by now; when the map refuses it the call     *)
(* returns NULL                                                            *)
EnableUpdate(cpu) ==
    /\ inflight[cpu].op = "update"
    /\ LET pid == inflight[cpu].pid
       IN  /\ task_ctx_map' =
                  bpf_map_update_elem(task_ctx_map, pid,
                      [deadline |-> U64(0), start_time |-> U64(0),
                       budget_ns |-> U64(0), valid |-> 0],
                      others.task, MAX_TASKS)
           /\ IF bpf_map_update_ok(task_ctx_map, pid, others.task, MAX_TASKS)
              THEN /\ inflight' = [inflight EXCEPT ![cpu] =
                                      [op |-> "relookup", pid |-> pid]]
                   /\ UNCHANGED v_res
              ELSE /\ inflight' = [inflight EXCEPT ![cpu] = Idle]
                   /\ v_res' = [pid |-> pid, ctx |-> NULL]
    /\ UNCHANGED <<clock, ticks, slo_map, rate_limit_state, deadline_events,
                   stats, rl_obs, v_cfg, misses, others, thr, main, host, agent, dsq,
                   stopped, popped>>

(* the third step: the second lookup, whose result the call returns *)
EnableRelookup(cpu) ==
    /\ inflight[cpu].op = "relookup"
    /\ v_res' = [pid |-> inflight[cpu].pid,
                 ctx |-> bpf_map_lookup_elem(task_ctx_map, inflight[cpu].pid)]
    /\ inflight' = [inflight EXCEPT ![cpu] = Idle]
    /\ UNCHANGED <<clock, ticks, slo_map, task_ctx_map, rate_limit_state,
                   deadline_events, stats, rl_obs, v_cfg, misses,
                   others, thr, main, host, agent, dsq, stopped, popped>>

(* -------------------------------------------------------------- stopping *)

(* a miss reported at every stop *)
deadline_missed_always(now, deadline) == TRUE

(* the miss test made with >= *)
deadline_missed_at_deadline(now, deadline) == U64Le(deadline, now)

deadline_missed(now, deadline) == U64Gt(now, deadline)

(* every stop taken for a miss *)
stopping_missed_always(now, ctx) == TRUE

(* a miss test on the time run since the task was last put on a CPU *)
stopping_missed_by_run_time(now, ctx) ==
    U64Gt(U64Sub(now, ctx.start_time), ctx.budget_ns)

(* simple_stopping: what the miss test reads of the context *)
stopping_missed(now, ctx) == deadline_missed(now, ctx.deadline)

(* a ring that never runs out of room *)
bpf_ringbuf_reserve_unbounded(ring) == TRUE

(* bpf_ringbuf_reserve: NULL when the ring has no room for the record *)
bpf_ringbuf_reserve(ring) == Len(ring) < MaxRingRecords

(* one limiter for all CPUs, kept in the slot of CPU 0 *)
this_cpu_slot_shared(cpu) == 0

(* a lookup in a BPF_MAP_TYPE_PERCPU_ARRAY gives the slot of the CPU the   *)
(* program runs on                                                         *)
this_cpu_slot(cpu) == cpu

(* a ring that hands its newest record to the consumer first *)
bpf_ringbuf_submit_at_head(ring, event) == <<event>> \o ring

(* bpf_ringbuf_submit: the record follows those submitted before it *)
bpf_ringbuf_submit(ring, event) == Append(ring, event)

(* later is the time that passes between the handler's clock read and the  *)
(* limiter's own                                                           *)
Stopping(cpu, pid, cg_id, runnable, later) ==
    LET now == clock
        ctx == bpf_map_lookup_elem(task_ctx_map, pid)
    IN  IF ctx.null \/ ctx.val.valid = 0
        THEN /\ later = 0
             /\ stopped' = IF runnable THEN stopped \ {pid}
                           ELSE stopped \cup {pid}
             /\ UNCHANGED <<clock, ticks, slo_map, task_ctx_map,
                            rate_limit_state, deadline_events, stats, rl_obs,
                            v_cfg, v_res, misses, others, thr, main, host, agent, dsq,
                            inflight, popped>>
        ELSE
        /\ IF stopping_missed(now, ctx.val)
           THEN LET miss_duration == U64Sub(now, ctx.val.deadline)
                    rl == is_rate_limited(rate_limit_state[this_cpu_slot(cpu)],
                                          U64Add(now, U64(later)))
                IN  /\ misses < MaxMisses
                    /\ misses' = misses + 1
                    /\ ticks + later <= MaxTicks
                    /\ U64Le(U64(later), U64Sub(U64_MAX, now))
                    /\ clock' = U64Add(now, U64(later))
                    /\ ticks' = ticks + later
                    /\ rate_limit_state' =
                           [rate_limit_state EXCEPT
                               ![this_cpu_slot(cpu)] = rl.state]
                    /\ IF ~rl.ret /\ bpf_ringbuf_reserve(deadline_events)
                       THEN deadline_events' =
                                bpf_ringbuf_submit(deadline_events,
                                       [cgroup_id |-> cg_id,
                                        deadline_miss_ns |-> miss_duration,
                                        timestamp |-> now])
                       ELSE UNCHANGED deadline_events
           ELSE /\ later = 0
                /\ UNCHANGED <<clock, ticks, rate_limit_state, deadline_events,
                               misses>>
        /\ IF ~runnable
           THEN task_ctx_map' = bpf_map_delete_elem(task_ctx_map, pid)
           ELSE UNCHANGED task_ctx_map
        /\ stopped' = IF runnable THEN stopped \ {pid} ELSE stopped \cup {pid}
        /\ UNCHANGED <<slo_map, stats, rl_obs, v_cfg, v_res, others, thr, main, host, agent,
                       dsq, inflight, popped>>

(* simple_stopping in two steps, other CPUs running in between.  The       *)
(* first step goes up to the cleanup: the clock, the lookup of the         *)
(* context, the miss test, the limiter and the event; it ends the call     *)
(* when there is no valid context or the task stays runnable.  ctx is the  *)
(* context the lookup returned, emitted whether an event was submitted     *)
StoppingBegin(cpu, pid, cg_id, runnable) ==
    LET now == clock
        ctx == bpf_map_lookup_elem(task_ctx_map, pid)
        missed == ~ctx.null /\ ctx.val.valid # 0
                      /\ stopping_missed(now, ctx.val)
        rl == is_rate_limited(rate_limit_state[this_cpu_slot(cpu)], now)
        sent == missed /\ ~rl.ret /\ bpf_ringbuf_reserve(deadline_events)
    IN  /\ inflight[cpu] = Idle
        /\ missed => misses < MaxMisses
        /\ misses' = IF missed THEN misses + 1 ELSE misses
        /\ rate_limit_state' =
               IF missed THEN [rate_limit_state EXCEPT
                                   ![this_cpu_slot(cpu)] = rl.state]
               ELSE rate_limit_state
        /\ deadline_events' =
               IF sent
               THEN bpf_ringbuf_submit(deadline_events,
                           [cgroup_id |-> cg_id,
                            deadline_miss_ns |-> U64Sub(now, ctx.val.deadline),
                            timestamp |-> now])
               ELSE deadline_events
        /\ IF ctx.null \/ ctx.val.valid = 0 \/ runnable
           THEN /\ stopped' = IF runnable THEN stopped \ {pid}
                              ELSE stopped \cup {pid}
                /\ UNCHANGED inflight
           ELSE /\ inflight' =
                       [inflight EXCEPT ![cpu] =
                           [op |-> "stopping", pid |-> pid, now |-> now,
                            ctx |-> ctx, emitted |-> sent]]
                /\ UNCHANGED stopped
        /\ UNCHANGED <<clock, ticks, slo_map, task_ctx_map, stats, rl_obs,
                       v_cfg, v_res, others, thr, main, host, agent, dsq, popped>>

(* the second step: the context of a task that is no longer runnable is    *)
(* deleted                                                                 *)
StoppingEnd(cpu) ==
    /\ inflight[cpu].op = "stopping"
    /\ task_ctx_map' = bpf_map_delete_elem(task_ctx_map, inflight[cpu].pid)
    /\ stopped' = stopped \cup {inflight[cpu].pid}
    /\ inflight' = [inflight EXCEPT ![cpu] = Idle]
    /\ UNCHANGED <<clock, ticks, slo_map, rate_limit_state, deadline_events,
                   stats, rl_obs, v_cfg, v_res, misses, others, thr, main, host, agent, dsq,
                   popped>>

(* -------------------------------------------------- configuration sources *)

validate_config_entry(budget_ms, importance) ==
    IF \/ U64Lt(U64(budget_ms), U64Div(U64Div(MIN_BUDGET_NS, 1000), 1000))
       \/ U64Gt(U64(budget_ms), U64Div(U64Div(MAX_BUDGET_NS, 1000), 1000))
    THEN -1
    ELSE IF importance < MIN_IMPORTANCE \/ importance > MAX_IMPORTANCE
    THEN -1
    ELSE 0

ms_to_ns(budget_ms) == U64Mul(U64Mul(U64(budget_ms), 1000), 1000)

(* ------------------------------------------- load_slo_config on a file *)

(* a text is a sequence of characters; "nl" is the newline *)
MAX_LINE_LENGTH == 256
MAX_CGROUP_PATH == 512
CGROUP_FS_ROOT_LEN == 14

isspace(c) == c \in {" ", "nl"}
isdigit(c) == c \in {"0", "1", "2", "3", "4", "5", "6", "7", "8", "9"}

digit_value(c) ==
    CASE c = "0" -> 0 [] c = "1" -> 1 [] c = "2" -> 2 [] c = "3" -> 3
      [] c = "4" -> 4 [] c = "5" -> 5 [] c = "6" -> 6 [] c = "7" -> 7
      [] c = "8" -> 8 [] c = "9" -> 9

(* the first index from i on whose character fails test, Len + 1 if none *)
span_end(str, i, test(_)) ==
    IF \E k \in i..Len(str) : ~test(str[k])
    THEN CHOOSE k \in i..Len(str) :
             ~test(str[k]) /\ \A j \in i..(k - 1) : test(str[j])
    ELSE Len(str) + 1

isgraph(c) == ~isspace(c)

RECURSIVE strtoull(_)
strtoull(digits) ==
    IF digits = <<>> THEN 0
    ELSE 10 * strtoull(SubSeq(digits, 1, Len(digits) - 1))
             + digit_value(digits[Len(digits)])

(* fgets(line, sizeof(line), config_file): how many characters of text it *)
(* takes: up to the newline, it included, and MAX_LINE_LENGTH - 1 at most  *)
fgets(text) ==
    LET nl == span_end(text, 1, LAMBDA c : c # "nl")
        n == IF nl <= Len(text) THEN nl ELSE Len(text)
    IN  IF n > MAX_LINE_LENGTH - 1 THEN MAX_LINE_LENGTH - 1 ELSE n

(* sscanf(line, "%511s %llu %u", ...): the fields converted and how many *)
sscanf(line) ==
    LET i1 == span_end(line, 1, isspace)
        t1 == span_end(line, i1, isgraph)
        e1 == IF t1 - i1 > MAX_CGROUP_PATH - 1
              THEN i1 + MAX_CGROUP_PATH - 1 ELSE t1
        i2 == span_end(line, e1, isspace)
        e2 == span_end(line, i2, isdigit)
        i3 == span_end(line, e2, isspace)
        e3 == span_end(line, i3, isdigit)
        n  == IF e1 = i1 THEN -1
              ELSE IF e2 = i2 THEN 1
              ELSE IF e3 = i3 THEN 2 ELSE 3
    IN  [n |-> n,
         cgroup_path |-> SubSeq(line, i1, e1 - 1),
         budget_ms |-> strtoull(SubSeq(line, i2, e2 - 1)),
         importance |-> strtoull(SubSeq(line, i3, e3 - 1))]

(* validate_cgroup_path *)
validate_cgroup_path(path) ==
    IF Len(path) = 0 THEN -1
    ELSE IF path[1] # "/" THEN -1
    ELSE IF \E i \in 1..(Len(path) - 1) : path[i] = "." /\ path[i + 1] = "."
    THEN -1
    ELSE IF Len(path) >= MAX_CGROUP_PATH - CGROUP_FS_ROOT_LEN - 1 THEN -1
    ELSE IF \E i \in 1..Len(path) :
                path[i] \notin {"a", "b", "c", "x", "/", "-", "_", "."}
                /\ ~isdigit(path[i])
    THEN -1
    ELSE 0

(* cgroup_path_to_id: the id of the directory under /sys/fs/cgroup, 0 when *)
(* the path does not resolve to one.  The hierarchy has the cgroup /a      *)
cgroup_path_to_id(path) == IF path = <<"/", "a">> THEN 1 ELSE 0

(* load_slo_config: the body of the while loop, for what fgets has put in  *)
(* line; the map and the count of entries loaded after it                  *)
load_slo_config_line(map, entries_loaded, line) ==
    LET skip == [map |-> map, entries_loaded |-> entries_loaded]
        entry == sscanf(line)
        cgroup_id == cgroup_path_to_id(entry.cgroup_path)
    IN  IF line[1] = "#" \/ line[1] = "nl" THEN skip
        ELSE IF entry.n # 3 THEN skip
        ELSE IF validate_cgroup_path(entry.cgroup_path) # 0 THEN skip
        ELSE IF validate_config_entry(entry.budget_ms, entry.importance) # 0
        THEN skip
        ELSE IF cgroup_id = 0 THEN skip
        ELSE IF ~bpf_map_update_ok(map, cgroup_id, others.slo, MAX_CGROUPS)
        THEN skip
        ELSE [map |-> bpf_map_update_elem(map, cgroup_id,
                          [budget_ns |-> ms_to_ns(entry.budget_ms),
                           importance |-> entry.importance,
                           flags |-> 0], others.slo, MAX_CGROUPS),
              entries_loaded |-> entries_loaded + 1]

(* load_slo_config: fopen has failed; ENOENT returns 0, any other error -1 *)
LoadOpenFailed ==
    /\ v_cfg.at = "fopen"
    /\ v_cfg.errno # ""
    /\ v_cfg' = [v_cfg EXCEPT !.at = "returned"]
    /\ v_res' = [ret |-> IF v_cfg.errno = "ENOENT" THEN 0 ELSE -1]
    /\ UNCHANGED <<clock, ticks, slo_map, task_ctx_map, rate_limit_state,
                   deadline_events, stats, rl_obs, misses,
                   others, thr, main, host, agent, dsq, stopped, inflight, popped>>

(* load_slo_config: fopen has succeeded *)
LoadOpen ==
    /\ v_cfg.at = "fopen"
    /\ v_cfg.errno = ""
    /\ v_cfg' = [v_cfg EXCEPT !.at = "fgets"]
    /\ UNCHANGED <<clock, ticks, slo_map, task_ctx_map, rate_limit_state,
                   deadline_events, stats, rl_obs, v_res, misses,
                   others, thr, main, host, agent, dsq, stopped, inflight, popped>>

(* load_slo_config: one turn of the loop, fgets and the body *)
LoadLoop ==
    /\ v_cfg.at = "fgets"
    /\ v_cfg.text # <<>>
    /\ LET n == fgets(v_cfg.text)
           r == load_slo_config_line(slo_map, v_cfg.entries_loaded,
                                     SubSeq(v_cfg.text, 1, n))
       IN  /\ slo_map' = r.map
           /\ v_cfg' = [v_cfg EXCEPT
                            !.text = SubSeq(v_cfg.text, n + 1, Len(v_cfg.text)),
                            !.entries_loaded = r.entries_loaded]
    /\ UNCHANGED <<clock, ticks, task_ctx_map, rate_limit_state,
                   deadline_events, stats, rl_obs, v_res, misses,
                   others, thr, main, host, agent, dsq, stopped, inflight, popped>>

(* load_slo_config: fgets finds the end of the file; the count is returned *)
LoadReturn ==
    /\ v_cfg.at = "fgets"
    /\ v_cfg.text = <<>>
    /\ v_cfg' = [v_cfg EXCEPT !.at = "returned"]
    /\ v_res' = [ret |-> v_cfg.entries_loaded]
    /\ UNCHANGED <<clock, ticks, slo_map, task_ctx_map, rate_limit_state,
                   deadline_events, stats, rl_obs, misses,
                   others, thr, main, host, agent, dsq, stopped, inflight, popped>>

(* load_slo_config: one line of the file that parses into three fields *)
LoadConfigLine(cgroup_id, budget_ms, importance) ==
    /\ IF validate_config_entry(budget_ms, importance) # 0 \/ cgroup_id = 0
       THEN UNCHANGED slo_map
       ELSE slo_map' = bpf_map_update_elem(slo_map, cgroup_id,
                           [budget_ns |-> ms_to_ns(budget_ms),
                            importance |-> importance,
                            flags |-> 0], others.slo, MAX_CGROUPS)
    /\ UNCHANGED <<clock, ticks, task_ctx_map, rate_limit_state,
                   deadline_events, stats, rl_obs, v_cfg, v_res, misses,
                   others, thr, main, host, agent, dsq, stopped, inflight, popped>>

(* the watcher's loop body for one pod event; cgID 0 stands for an event    *)
(* that is skipped: no annotation, or no cgroup found for the pod           *)
WatcherUpdate(cgID, budgetMs, importance) ==
    /\ IF cgID = 0
       THEN UNCHANGED slo_map
       ELSE slo_map' = bpf_map_update_elem(slo_map, cgID,
                [budget_ns |-> ms_to_ns(IF budgetMs = 0 THEN 100 ELSE budgetMs),
                 importance |-> IF importance = 0 THEN 50 ELSE importance,
                 flags |-> 0], others.slo, MAX_CGROUPS)
    /\ UNCHANGED <<clock, ticks, task_ctx_map, rate_limit_state,
                   deadline_events, stats, rl_obs, v_cfg, v_res, misses,
                   others, thr, main, host, agent, dsq, stopped, inflight, popped>>

(* ------------------------------------------------------ the environment *)

(* the clock advances by d *)
TickBy(d) ==
    /\ ticks < MaxTicks
    /\ U64Le(d, U64Sub(U64_MAX, clock))
    /\ clock' = U64Add(clock, d)
    /\ ticks' = ticks + 1
    /\ UNCHANGED <<slo_map, task_ctx_map, rate_limit_state, deadline_events,
                   stats, rl_obs, v_cfg, v_res, misses,
                   others, thr, main, host, agent, dsq, stopped, inflight, popped>>

(* the clock advances to the deadline of pid *)
TickToDeadline(pid) ==
    /\ ticks < MaxTicks
    /\ pid \in DOMAIN task_ctx_map
    /\ task_ctx_map[pid].valid # 0
    /\ U64Lt(clock, task_ctx_map[pid].deadline)
    /\ clock' = task_ctx_map[pid].deadline
    /\ ticks' = ticks + 1
    /\ UNCHANGED <<slo_map, task_ctx_map, rate_limit_state, deadline_events,
                   stats, rl_obs, v_cfg, v_res, misses,
                   others, thr, main, host, agent, dsq, stopped, inflight, popped>>

(* sizeof(struct deadline_event): three __u64 *)
sizeof_deadline_event == 24

(* a consumer that counts a record whatever its size *)
handle_deadline_event_unchecked(a, event, data_sz) ==
    [a EXCEPT !.total_deadline_misses = a.total_deadline_misses + 1,
              !.total_miss_duration_ns =
                  U64Add(a.total_miss_duration_ns, event.deadline_miss_ns)]

(* handle_deadline_event: the agent's counters after a record of data_sz   *)
(* bytes whose first bytes read as event                                   *)
handle_deadline_event(a, event, data_sz) ==
    IF data_sz < sizeof_deadline_event THEN a
    ELSE [a EXCEPT !.total_deadline_misses = a.total_deadline_misses + 1,
                   !.total_miss_duration_ns =
                       U64Add(a.total_miss_duration_ns,
                              event.deadline_miss_ns)]

(* handle_deadline_event applied to the records of ring, oldest first; the *)
(* scheduler reserves sizeof(struct deadline_event) bytes for each         *)
RECURSIVE handle_deadline_events(_, _)
handle_deadline_events(a, ring) ==
    IF ring = <<>> THEN a
    ELSE handle_deadline_events(
             handle_deadline_event(a, Head(ring), sizeof_deadline_event),
             Tail(ring))

(* ring_buffer__poll hands the consumer one record of data_sz bytes *)
HandleRecord(event, data_sz) ==
    /\ agent.total_deadline_misses < MaxRecords
    /\ agent' = handle_deadline_event(agent, event, data_sz)
    /\ UNCHANGED <<clock, ticks, slo_map, task_ctx_map, rate_limit_state,
                   deadline_events, stats, rl_obs, v_cfg, v_res, misses,
                   others, thr, main, host, dsq, stopped, inflight, popped>>

(* ring_buffer__poll: the agent consumes every record of the ring *)
RingPoll ==
    /\ deadline_events # <<>>
    /\ deadline_events' = <<>>
    /\ agent' = handle_deadline_events(agent, deadline_events)
    /\ UNCHANGED <<clock, ticks, slo_map, task_ctx_map, rate_limit_state,
                   stats, rl_obs, v_cfg, v_res, misses,
                   others, thr, main, host, dsq, stopped, inflight, popped>>

(* the sum over the CPUs of one per-CPU counter *)
RECURSIVE stats_sum(_, _, _)
stats_sum(st, cpus, idx) ==
    IF cpus = {} THEN 0
    ELSE LET c == CHOOSE x \in cpus : TRUE
         IN  st[c][idx] + stats_sum(st, cpus \ {c}, idx)

(* ------------------------------------------ the agent's threads and lock *)

(* no thread holds stats_lock; the main thread is between two calls, with  *)
(* the record it handles and the stats[] array of its loop; the health     *)
(* thread is between two requests, with the four locals of                 *)
(* handle_metrics_request.  total and pass keep the (misses, duration)     *)
(* pair left by the last whole event and the (local, global) pair left by  *)
(* the last whole read_stats pass, at the start those of initialisation    *)
NoThreads ==
    [lock |-> "none",
     main_pc |-> "idle", event |-> U64(0), stats |-> <<0, 0>>,
     http_pc |-> "idle", misses |-> 0, miss_duration |-> U64(0),
     local |-> 0, global |-> 0,
     total |-> <<0, U64(0)>>, pass |-> <<0, 0>>]

(* a lock that is taken whoever holds it *)
pthread_mutex_lock_unheld(owner) == TRUE

(* pthread_mutex_lock(&stats_lock) returns once no thread holds the lock *)
pthread_mutex_lock(owner) == owner = "none"

(* handle_deadline_event: the size test passed, the lock is taken *)
EventLock(event) ==
    /\ thr.main_pc = "idle"
    /\ agent.total_deadline_misses < MaxEvents
    /\ pthread_mutex_lock(thr.lock)
    /\ thr' = [thr EXCEPT !.lock = "main", !.main_pc = "event_locked",
                          !.event = event.deadline_miss_ns]
    /\ UNCHANGED <<clock, ticks, slo_map, task_ctx_map, rate_limit_state,
                   deadline_events, stats, rl_obs, v_cfg, v_res, misses,
                   others, agent, dsq, stopped, inflight, popped, host, main>>

(* handle_deadline_event: total_deadline_misses++ *)
EventCount ==
    /\ thr.main_pc = "event_locked"
    /\ agent' = [agent EXCEPT
                     !.total_deadline_misses = agent.total_deadline_misses + 1]
    /\ thr' = [thr EXCEPT !.main_pc = "event_counted"]
    /\ UNCHANGED <<clock, ticks, slo_map, task_ctx_map, rate_limit_state,
                   deadline_events, stats, rl_obs, v_cfg, v_res, misses,
                   others, dsq, stopped, inflight, popped, host, main>>

(* handle_deadline_event: total_miss_duration_ns += event->deadline_miss_ns *)
EventAdd ==
    /\ thr.main_pc = "event_counted"
    /\ agent' = [agent EXCEPT
                     !.total_miss_duration_ns =
                         U64Add(agent.total_miss_duration_ns, thr.event)]
    /\ thr' = [thr EXCEPT !.main_pc = "event_added"]
    /\ UNCHANGED <<clock, ticks, slo_map, task_ctx_map, rate_limit_state,
                   deadline_events, stats, rl_obs, v_cfg, v_res, misses,
                   others, dsq, stopped, inflight, popped, host, main>>

(* handle_deadline_event: the lock is released, the event is done *)
EventUnlock ==
    /\ thr.main_pc = "event_added"
    /\ thr' = [thr EXCEPT
                   !.lock = "none", !.main_pc = "idle", !.event = U64(0),
                   !.total = <<agent.total_deadline_misses,
                               agent.total_miss_duration_ns>>]
    /\ UNCHANGED <<clock, ticks, slo_map, task_ctx_map, rate_limit_state,
                   deadline_events, stats, rl_obs, v_cfg, v_res, misses,
                   others, agent, dsq, stopped, inflight, popped, host, main>>

(* read_stats: the per-CPU counters of idx 0 are read and summed, then     *)
(* those of idx 1                                                          *)
StatsSum ==
    /\ thr.main_pc \in {"idle", "stats_0"}
    /\ thr' = IF thr.main_pc = "idle"
              THEN [thr EXCEPT !.main_pc = "stats_0",
                               !.stats = <<stats_sum(stats, DOMAIN stats, 0),
                                           0>>]
              ELSE [thr EXCEPT !.main_pc = "stats_1",
                               !.stats = <<thr.stats[1],
                                           stats_sum(stats, DOMAIN stats, 1)>>]
    /\ UNCHANGED <<clock, ticks, slo_map, task_ctx_map, rate_limit_state,
                   deadline_events, stats, rl_obs, v_cfg, v_res, misses,
                   others, agent, dsq, stopped, inflight, popped, host, main>>

(* read_stats: the lock is taken *)
StatsLock ==
    /\ thr.main_pc = "stats_1"
    /\ pthread_mutex_lock(thr.lock)
    /\ thr' = [thr EXCEPT !.lock = "main", !.main_pc = "stats_locked"]
    /\ UNCHANGED <<clock, ticks, slo_map, task_ctx_map, rate_limit_state,
                   deadline_events, stats, rl_obs, v_cfg, v_res, misses,
                   others, agent, dsq, stopped, inflight, popped, host, main>>

(* read_stats: last_local_dispatches = stats[0], then                      *)
(* last_global_dispatches = stats[1]                                       *)
StatsStore ==
    /\ thr.main_pc \in {"stats_locked", "stats_local"}
    /\ IF thr.main_pc = "stats_locked"
       THEN /\ agent' = [agent EXCEPT !.last_local_dispatches = thr.stats[1]]
            /\ thr' = [thr EXCEPT !.main_pc = "stats_local"]
       ELSE /\ agent' = [agent EXCEPT !.last_global_dispatches = thr.stats[2]]
            /\ thr' = [thr EXCEPT !.main_pc = "stats_global"]
    /\ UNCHANGED <<clock, ticks, slo_map, task_ctx_map, rate_limit_state,
                   deadline_events, stats, rl_obs, v_cfg, v_res, misses,
                   others, dsq, stopped, inflight, popped, host, main>>

(* read_stats: the lock is released, the pass is done *)
StatsUnlock ==
    /\ thr.main_pc = "stats_global"
    /\ thr' = [thr EXCEPT
                   !.lock = "none", !.main_pc = "idle",
                   !.pass = thr.stats]
    /\ UNCHANGED <<clock, ticks, slo_map, task_ctx_map, rate_limit_state,
                   deadline_events, stats, rl_obs, v_cfg, v_res, misses,
                   others, agent, dsq, stopped, inflight, popped, host, main>>

(* handle_metrics_request: the lock is taken *)
MetricsLock ==
    /\ thr.http_pc = "idle"
    /\ pthread_mutex_lock(thr.lock)
    /\ thr' = [thr EXCEPT !.lock = "http", !.http_pc = "locked"]
    /\ UNCHANGED <<clock, ticks, slo_map, task_ctx_map, rate_limit_state,
                   deadline_events, stats, rl_obs, v_cfg, v_res, misses,
                   others, agent, dsq, stopped, inflight, popped, host, main>>

(* handle_metrics_request: the four counters are copied one after another *)
MetricsRead ==
    /\ thr.http_pc \in {"locked", "misses", "miss_duration", "local"}
    /\ thr' =
           CASE thr.http_pc = "locked" ->
                    [thr EXCEPT !.http_pc = "misses",
                                !.misses = agent.total_deadline_misses]
             [] thr.http_pc = "misses" ->
                    [thr EXCEPT !.http_pc = "miss_duration",
                                !.miss_duration = agent.total_miss_duration_ns]
             [] thr.http_pc = "miss_duration" ->
                    [thr EXCEPT !.http_pc = "local",
                                !.local = agent.last_local_dispatches]
             [] thr.http_pc = "local" ->
                    [thr EXCEPT !.http_pc = "global",
                                !.global = agent.last_global_dispatches]
    /\ UNCHANGED <<clock, ticks, slo_map, task_ctx_map, rate_limit_state,
                   deadline_events, stats, rl_obs, v_cfg, v_res, misses,
                   others, agent, dsq, stopped, inflight, popped, host, main>>

(* handle_metrics_request: the lock is released, the response is built     *)
(* from the four locals and sent, and the call returns                     *)
MetricsUnlock ==
    /\ thr.http_pc = "global"
    /\ thr' = [thr EXCEPT !.lock = "none", !.http_pc = "idle",
                          !.misses = 0, !.miss_duration = U64(0),
                          !.local = 0, !.global = 0]
    /\ UNCHANGED <<clock, ticks, slo_map, task_ctx_map, rate_limit_state,
                   deadline_events, stats, rl_obs, v_cfg, v_res, misses,
                   others, agent, dsq, stopped, inflight, popped, host, main>>

(* read_stats: the agent sums the per-CPU counters and keeps the sums *)
ReadStats ==
    /\ agent' = [agent EXCEPT
                     !.last_local_dispatches = stats_sum(stats, DOMAIN stats, 0),
                     !.last_global_dispatches = stats_sum(stats, DOMAIN stats, 1)]
    /\ UNCHANGED <<clock, ticks, slo_map, task_ctx_map, rate_limit_state,
                   deadline_events, stats, rl_obs, v_cfg, v_res, misses,
                   others, thr, main, host, dsq, stopped, inflight, popped>>

(* main: the scheduler has exited with a restart code; the agent destroys  *)
(* the skeleton and opens, loads and attaches it again.  The maps that are *)
(* not pinned (stats, rate_limit_state, deadline_events) are created anew; *)
(* slo_map and task_ctx_map are pinned by name and are found as they were; *)
(* the queue goes with the scheduler that is detached                      *)
Restart ==
    /\ stats' = [c \in DOMAIN stats |-> [i \in {0, 1} |-> 0]]
    /\ rate_limit_state' =
           [c \in DOMAIN rate_limit_state |->
               [event_count |-> 0, window_start |-> U64(0)]]
    /\ deadline_events' = <<>>
    /\ dsq' = <<>>
    /\ popped' = <<>>
    /\ host' = NoCalls
    /\ UNCHANGED <<clock, ticks, slo_map, task_ctx_map, rl_obs, v_cfg, v_res,
                   misses, others, thr, main, agent, stopped, inflight>>

(* ------------------------------------------- main() and the health server *)

(* a health check that answers 200 whatever the flag *)
handle_health_request_always_ok(attached) == 200

(* handle_health_request: the status it sends *)
handle_health_request(attached) == IF attached # 0 THEN 200 ELSE 503

(* handle_http_request: the status sent for a request line *)
handle_http_request(method, path, attached) ==
    IF method # "GET" THEN 405
    ELSE IF path = "/health" \/ path = "/healthz"
    THEN handle_health_request(attached)
    ELSE IF path = "/metrics" THEN 200
    ELSE IF path = "/ready" \/ path = "/readyz"
    THEN handle_health_request(attached)
    ELSE 404

(* the maps of a skeleton that is destroyed and opened again: those that   *)
(* are not pinned are created anew                                         *)
Reopened ==
    /\ stats' = [c \in DOMAIN stats |-> [i \in {0, 1} |-> 0]]
    /\ rate_limit_state' =
           [c \in DOMAIN rate_limit_state |->
               [event_count |-> 0, window_start |-> U64(0)]]
    /\ deadline_events' = <<>>
    /\ dsq' = <<>>
    /\ popped' = <<>>
    /\ host' = NoCalls

(* main, from restart: to the attach.  SCX_OPS_OPEN gives a new skeleton,  *)
(* with nothing recorded in its uei.  SCX_OPS_LOAD or SCX_OPS_ATTACH may   *)
(* fail, and main goes to cleanup, whose first statement clears the flag   *)
MainAttach(ok) ==
    /\ main.pc = "open"
    /\ main' = IF ok
               THEN [main EXCEPT !.pc = "attached", !.scheduler_attached = 1,
                                 !.skel = TRUE, !.uei = "none", !.link = TRUE]
               ELSE [main EXCEPT !.pc = "cleanup", !.scheduler_attached = 0,
                                 !.skel = TRUE, !.uei = "none"]
    /\ UNCHANGED <<clock, ticks, slo_map, task_ctx_map, rate_limit_state,
                   deadline_events, stats, rl_obs, v_cfg, v_res, misses,
                   others, thr, agent, dsq, stopped, inflight, popped, host>>

(* main, from the attach to the loop: the ring buffer, the configuration   *)
(* and start_health_server, which does nothing for a port <= 0 and whose   *)
(* failure main only logs                                                  *)
MainSetup(rb_ok, cfg_ok, srv_ok) ==
    /\ main.pc = "attached"
    /\ main' = IF ~rb_ok
               THEN [main EXCEPT !.pc = "cleanup", !.scheduler_attached = 0]
               ELSE IF ~cfg_ok
               THEN [main EXCEPT !.pc = "cleanup", !.scheduler_attached = 0,
                                 !.rb = TRUE]
               ELSE IF main.health_port > 0 /\ srv_ok
               THEN [main EXCEPT !.pc = "loop", !.rb = TRUE,
                                 !.health_thread_running = TRUE,
                                 !.thread = "polling"]
               ELSE [main EXCEPT !.pc = "loop", !.rb = TRUE]
    /\ UNCHANGED <<clock, ticks, slo_map, task_ctx_map, rate_limit_state,
                   deadline_events, stats, rl_obs, v_cfg, v_res, misses,
                   others, thr, agent, dsq, stopped, inflight, popped, host>>

(* sigint_handler *)
Signal ==
    /\ main.pc # "exited"
    /\ main.exit_req = 0
    /\ main' = [main EXCEPT !.exit_req = 1]
    /\ UNCHANGED <<clock, ticks, slo_map, task_ctx_map, rate_limit_state,
                   deadline_events, stats, rl_obs, v_cfg, v_res, misses,
                   others, thr, agent, dsq, stopped, inflight, popped, host>>

(* the kernel makes the attached scheduler exit, and the scheduler records *)
(* the exit in uei, with a code that asks for a restart or not             *)
KernelExit(restart) ==
    /\ main.link
    /\ main.uei = "none"
    /\ restart => main.restarts < MaxRestarts
    /\ main' = [main EXCEPT
                    !.uei = IF restart THEN "restart" ELSE "exit",
                    !.restarts = IF restart THEN main.restarts + 1
                                 ELSE main.restarts]
    /\ UNCHANGED <<clock, ticks, slo_map, task_ctx_map, rate_limit_state,
                   deadline_events, stats, rl_obs, v_cfg, v_res, misses,
                   others, thr, agent, dsq, stopped, inflight, popped, host>>

(* a loop that goes on after a signal *)
main_loop_continues_after_signal(exit_req, uei) == uei = "none"

(* main: the test of its loop, !exit_req && !UEI_EXITED(skel, uei) *)
main_loop_continues(exit_req, uei) == exit_req = 0 /\ uei = "none"

(* main leaves its loop, on exit_req or on the exit of the scheduler, and  *)
(* enters cleanup                                                          *)
MainLoopExit ==
    /\ main.pc = "loop"
    /\ ~main_loop_continues(main.exit_req, main.uei)
    /\ main' = [main EXCEPT !.pc = "cleanup", !.scheduler_attached = 0]
    /\ UNCHANGED <<clock, ticks, slo_map, task_ctx_map, rate_limit_state,
                   deadline_events, stats, rl_obs, v_cfg, v_res, misses,
                   others, thr, agent, dsq, stopped, inflight, popped, host>>

(* main leaves its loop on an error of the poll, and enters cleanup *)
MainPollError ==
    /\ main.pc = "loop"
    /\ main_loop_continues(main.exit_req, main.uei)
    /\ main' = [main EXCEPT !.pc = "cleanup", !.scheduler_attached = 0]
    /\ UNCHANGED <<clock, ticks, slo_map, task_ctx_map, rate_limit_state,
                   deadline_events, stats, rl_obs, v_cfg, v_res, misses,
                   others, thr, agent, dsq, stopped, inflight, popped, host>>

(* cleanup: stop_health_server returns at once when no thread was started; *)
(* else it clears the flag, closes the socket and joins the thread         *)
MainStopServer ==
    /\ main.pc = "cleanup"
    /\ main' = IF ~main.health_thread_running
               THEN [main EXCEPT !.pc = "stopped"]
               ELSE [main EXCEPT !.pc = "stopped",
                                 !.health_thread_running = FALSE,
                                 !.thread = "done"]
    /\ UNCHANGED <<clock, ticks, slo_map, task_ctx_map, rate_limit_state,
                   deadline_events, stats, rl_obs, v_cfg, v_res, misses,
                   others, thr, agent, dsq, stopped, inflight, popped, host>>

(* cleanup: ring_buffer__free, when there is a ring buffer *)
MainFreeRing ==
    /\ main.pc = "stopped"
    /\ main' = [main EXCEPT !.pc = "freed", !.rb = FALSE]
    /\ UNCHANGED <<clock, ticks, slo_map, task_ctx_map, rate_limit_state,
                   deadline_events, stats, rl_obs, v_cfg, v_res, misses,
                   others, thr, agent, dsq, stopped, inflight, popped, host>>

(* cleanup: bpf_link__destroy, when there is a link *)
MainDestroyLink ==
    /\ main.pc = "freed"
    /\ main' = [main EXCEPT !.pc = "destroy", !.link = FALSE]
    /\ UNCHANGED <<clock, ticks, slo_map, task_ctx_map, rate_limit_state,
                   deadline_events, stats, rl_obs, v_cfg, v_res, misses,
                   others, thr, agent, dsq, stopped, inflight, popped, host>>

(* cleanup: the exit code is taken from uei and the skeleton is destroyed; *)
(* on a restart code main goes back to restart, else it returns            *)
MainDestroy ==
    /\ main.pc = "destroy"
    /\ main' = [main EXCEPT
                    !.pc = IF main.uei = "restart" THEN "open" ELSE "exited",
                    !.skel = FALSE]
    /\ Reopened
    /\ UNCHANGED <<clock, ticks, slo_map, task_ctx_map, rl_obs, v_cfg, v_res,
                   misses, others, thr, agent, stopped, inflight>>

(* health_server_thread: the test of its loop fails and the thread ends *)
ThreadExit ==
    /\ main.thread = "polling"
    /\ main.exit_req # 0 \/ ~main.health_thread_running
    /\ main' = [main EXCEPT !.thread = "done"]
    /\ UNCHANGED <<clock, ticks, slo_map, task_ctx_map, rate_limit_state,
                   deadline_events, stats, rl_obs, v_cfg, v_res, misses,
                   others, thr, agent, dsq, stopped, inflight, popped, host>>

(* health_server_thread: a connection is accepted and its request          *)
(* answered; v_res is the request and the status sent                      *)
HealthRequest(method, path) ==
    /\ main.thread = "polling"
    /\ v_res' = [method |-> method, path |-> path,
                 status |-> handle_http_request(method, path,
                                                main.scheduler_attached)]
    /\ UNCHANGED <<clock, ticks, slo_map, task_ctx_map, rate_limit_state,
                   deadline_events, stats, rl_obs, v_cfg, misses,
                   others, thr, main, agent, dsq, stopped, inflight, popped, host>>

(* ------------------------------------------------ the limiter, on its own *)

(* what a caller of the limiter can count.  A window opens at the start and *)
(* at every call that finds more than RATE_LIMIT_WINDOW_NS elapsed since    *)
(* window_start.  calls and permits count the calls of the window and those *)
(* of them that were let through; calls stops at MAX_EVENTS_PER_SEC + 1.    *)
(* span_start and span_count follow one stretch of time shorter than        *)
(* RATE_LIMIT_WINDOW_NS: the time of the first call a window let through,   *)
(* and the calls let through from then on while the stretch lasts.  The     *)
(* stretch is carried into the next window only when its window was used up *)
observe(obs, st, now, ret) ==
    LET opens == U64Gt(U64Sub(now, st.window_start), RATE_LIMIT_WINDOW_NS)
        calls == IF opens THEN 0 ELSE obs.calls
        permits == IF opens THEN 0 ELSE obs.permits
        keep == /\ obs.span_start # <<>>
                /\ opens => obs.permits >= MAX_EVENTS_PER_SEC
                /\ U64Lt(U64Sub(now, obs.span_start[1]), RATE_LIMIT_WINDOW_NS)
        start == ~keep /\ permits = 0
    IN  [calls |-> IF calls > MAX_EVENTS_PER_SEC THEN calls ELSE calls + 1,
         permits |-> IF ret THEN permits ELSE permits + 1,
         last |-> IF ret THEN "denied"
                  ELSE IF opens THEN "opened" ELSE "permitted",
         span_start |-> IF ret THEN obs.span_start
                        ELSE IF keep THEN obs.span_start
                        ELSE IF start THEN <<now>> ELSE <<>>,
         span_count |-> IF ret THEN obs.span_count
                        ELSE IF keep THEN obs.span_count + 1
                        ELSE IF start THEN 1 ELSE 0]

(* a detected miss asks the CPU's limiter whether its event may be sent *)
RateLimitCall(cpu) ==
    LET rl == is_rate_limited(rate_limit_state[cpu], clock)
    IN  /\ rate_limit_state' = [rate_limit_state EXCEPT ![cpu] = rl.state]
        /\ rl_obs' = [rl_obs EXCEPT
                         ![cpu] = observe(rl_obs[cpu], rate_limit_state[cpu],
                                          clock, rl.ret)]
        /\ UNCHANGED <<clock, ticks, slo_map, task_ctx_map, deadline_events,
                       stats, v_cfg, v_res, misses,
                   others, thr, main, host, agent, dsq, stopped, inflight, popped>>

(* validate_slo_cfg applied to the candidate *)
Validate ==
    /\ v_res = 1
    /\ v_res' = validate_slo_cfg(v_cfg)
    /\ UNCHANGED <<clock, ticks, slo_map, task_ctx_map, rate_limit_state,
                   deadline_events, stats, rl_obs, v_cfg, misses,
                   others, thr, main, host, agent, dsq, stopped, inflight, popped>>

(* ------------------------------------------------------- specifications *)

InitClocks ==
    {U64(0), U64(NSEC_PER_SEC), U64Sub(U64_MAX, MIN_BUDGET_NS), U64_MAX}

(* the maps hold nothing but what the model lists *)
NoOthers == [slo |-> 0, task |-> 0]

(* the agent's counters at process start *)
NoCounts ==
    [total_deadline_misses |-> 0, total_miss_duration_ns |-> U64(0),
     last_local_dispatches |-> 0, last_global_dispatches |-> 0]

NoObs ==
    [calls |-> 0, permits |-> 0, last |-> "none", span_start |-> <<>>,
     span_count |-> 0]

Init ==
    /\ clock \in InitClocks
    /\ ticks = 0
    /\ slo_map = <<>>
    /\ task_ctx_map = <<>>
    /\ rate_limit_state =
           [c \in Cpus |-> [event_count |-> 0, window_start |-> U64(0)]]
    /\ deadline_events = <<>>
    /\ stats = [c \in Cpus |-> [i \in {0, 1} |-> 0]]
    /\ rl_obs = [c \in Cpus |-> NoObs]
    /\ v_cfg = NULL
    /\ v_res = 1
    /\ misses = 0
    /\ others = NoOthers
    /\ agent = NoCounts
    /\ dsq = <<>>
    /\ stopped = {}
    /\ inflight = [c \in Cpus |-> Idle]
    /\ popped = <<>>
    /\ host = NoCalls
    /\ main = MainLoop
    /\ thr = NoThreads

(* configuration and enqueue *)
Next ==
    \/ \E cpu \in Cpus, pid \in Tids, cg_id \in Wids : Enqueue(cpu, pid, cg_id)
    \/ \E pid \in Tids : Running(pid)
    \/ \E pid \in Tids : Enable(pid)
    \/ \E cgroup_id \in ConfigWids, budget_ms \in ConfigBudgetsMs,
          importance \in ConfigImportances :
              LoadConfigLine(cgroup_id, budget_ms, importance)
    \/ \E cgID \in ConfigWids, budgetMs \in ConfigBudgetsMs,
          importance \in ConfigImportances :
              WatcherUpdate(cgID, budgetMs, importance)

Spec == Init /\ [][Next]_vars

(* stopping and the miss events.  Each CPU's limiter starts either as the   *)
(* zeroed map leaves it, or one short of its limit in a window opened at    *)
(* the current clock value by the misses of tasks that are not in StopTids  *)
StopTids == {1}

InitStop ==
    /\ clock = U64(NSEC_PER_SEC)
    /\ ticks = 0
    /\ slo_map = <<>>
    /\ task_ctx_map = <<>>
    /\ rate_limit_state \in
           [Cpus -> {[event_count |-> 0, window_start |-> U64(0)],
                         [event_count |-> MAX_EVENTS_PER_SEC - 1,
                          window_start |-> U64(NSEC_PER_SEC)]}]
    /\ deadline_events = <<>>
    /\ stats = [c \in Cpus |-> [i \in {0, 1} |-> 0]]
    /\ rl_obs = [c \in Cpus |-> NoObs]
    /\ v_cfg = NULL
    /\ v_res = 1
    /\ misses = 0
    /\ others = NoOthers
    /\ agent = NoCounts
    /\ dsq = <<>>
    /\ stopped = {}
    /\ inflight = [c \in Cpus |-> Idle]
    /\ popped = <<>>
    /\ host = NoCalls
    /\ main = MainLoop
    /\ thr = NoThreads

NextStop ==
    \/ \E cpu \in Cpus, pid \in StopTids, cg_id \in Wids :
           Enqueue(cpu, pid, cg_id)
    \/ \E pid \in StopTids : Running(pid)
    \/ \E cpu \in Cpus, pid \in StopTids, cg_id \in Wids,
          runnable \in BOOLEAN, later \in {0, 1} :
              Stopping(cpu, pid, cg_id, runnable, later)
    \/ TickBy(U64(1))
    \/ \E pid \in StopTids : TickToDeadline(pid)
    \/ RingPoll

SpecStop == InitStop /\ [][NextStop]_vars

(* the limiter of one CPU, from a fresh window *)
InitRL ==
    /\ clock = U64(0)
    /\ ticks = 0
    /\ slo_map = <<>>
    /\ task_ctx_map = <<>>
    /\ rate_limit_state =
           [c \in {0} |-> [event_count |-> 0, window_start |-> U64(0)]]
    /\ deadline_events = <<>>
    /\ stats = [c \in {0} |-> [i \in {0, 1} |-> 0]]
    /\ rl_obs = [c \in {0} |-> NoObs]
    /\ v_cfg = NULL
    /\ v_res = 1
    /\ misses = 0
    /\ others = NoOthers
    /\ agent = NoCounts
    /\ dsq = <<>>
    /\ stopped = {}
    /\ inflight = [c \in Cpus |-> Idle]
    /\ popped = <<>>
    /\ host = NoCalls
    /\ main = MainLoop
    /\ thr = NoThreads

NextRL ==
    \/ RateLimitCall(0)
    \/ TickBy(U64(1))
    \/ TickBy(RATE_LIMIT_WINDOW_NS)

SpecRL == InitRL /\ [][NextRL]_vars

(* the deadline simple_enqueue computes for one budget and one clock value *)
(* under two importances, low < high                                       *)
WeighBudgets ==
    {MIN_BUDGET_NS, U64Add(MIN_BUDGET_NS, U64(1)), ms_to_ns(50),
     DEFAULT_BUDGET_NS, U64Sub(MAX_BUDGET_NS, U64(1)), MAX_BUDGET_NS}
WeighImportances == {1, 2, 50, 99, 100}

Weigh ==
    /\ v_res = NULL
    /\ v_res' =
           Ptr([i \in {v_cfg.low, v_cfg.high} |->
                   enqueue_deadline(v_cfg.now,
                       effective_budget(v_cfg.budget_ns,
                           enqueue_importance(
                               Ptr([budget_ns |-> v_cfg.budget_ns,
                                    importance |-> i, flags |-> 0]))))])
    /\ UNCHANGED <<clock, ticks, slo_map, task_ctx_map, rate_limit_state,
                   deadline_events, stats, rl_obs, v_cfg, misses,
                   others, thr, main, host, agent, dsq, stopped, inflight, popped>>

InitWeigh ==
    /\ clock = U64(0)
    /\ ticks = 0
    /\ slo_map = <<>>
    /\ task_ctx_map = <<>>
    /\ rate_limit_state =
           [c \in Cpus |-> [event_count |-> 0, window_start |-> U64(0)]]
    /\ deadline_events = <<>>
    /\ stats = [c \in Cpus |-> [i \in {0, 1} |-> 0]]
    /\ rl_obs = [c \in Cpus |-> NoObs]
    /\ v_cfg \in {[now |-> n, budget_ns |-> b, low |-> i, high |-> j] :
                     n \in InitClocks, b \in WeighBudgets,
                     i \in WeighImportances, j \in WeighImportances}
    /\ v_cfg.low < v_cfg.high
    /\ v_res = NULL
    /\ misses = 0
    /\ others = NoOthers
    /\ agent = NoCounts
    /\ dsq = <<>>
    /\ stopped = {}
    /\ inflight = [c \in Cpus |-> Idle]
    /\ popped = <<>>
    /\ host = NoCalls
    /\ main = MainLoop
    /\ thr = NoThreads

NextWeigh == Weigh

SpecWeigh == InitWeigh /\ [][NextWeigh]_vars

(* validate_slo_cfg over candidate configurations *)
ValidateBudgets ==
    {U64(0), U64Sub(MIN_BUDGET_NS, U64(1)), MIN_BUDGET_NS, DEFAULT_BUDGET_NS,
     MAX_BUDGET_NS, U64Add(MAX_BUDGET_NS, U64(1)), U64_MAX}
ValidateImportances == {0, 1, 50, 100, 101}
ValidateFlags == {0, 1}

InitValidate ==
    /\ clock = U64(0)
    /\ ticks = 0
    /\ slo_map = <<>>
    /\ task_ctx_map = <<>>
    /\ rate_limit_state =
           [c \in Cpus |-> [event_count |-> 0, window_start |-> U64(0)]]
    /\ deadline_events = <<>>
    /\ stats = [c \in Cpus |-> [i \in {0, 1} |-> 0]]
    /\ rl_obs = [c \in Cpus |-> NoObs]
    /\ v_cfg \in {NULL} \cup
           {Ptr([budget_ns |-> b, importance |-> i, flags |-> f]) :
               b \in ValidateBudgets, i \in ValidateImportances,
               f \in ValidateFlags}
    /\ v_res = 1
    /\ misses = 0
    /\ others = NoOthers
    /\ agent = NoCounts
    /\ dsq = <<>>
    /\ stopped = {}
    /\ inflight = [c \in Cpus |-> Idle]
    /\ popped = <<>>
    /\ host = NoCalls
    /\ main = MainLoop
    /\ thr = NoThreads

NextValidate == Validate

SpecValidate == InitValidate /\ [][NextValidate]_vars

(* the agent and its counters: the callbacks that count, the misses, the   *)
(* agent's poll of the ring and read of the statistics, and the restart of *)
(* the scheduler                                                           *)
InitAgent ==
    /\ clock = U64(NSEC_PER_SEC)
    /\ ticks = 0
    /\ slo_map = <<>>
    /\ task_ctx_map = <<>>
    /\ rate_limit_state =
           [c \in Cpus |-> [event_count |-> 0, window_start |-> U64(0)]]
    /\ deadline_events = <<>>
    /\ stats = [c \in Cpus |-> [i \in {0, 1} |-> 0]]
    /\ rl_obs = [c \in Cpus |-> NoObs]
    /\ v_cfg = NULL
    /\ v_res = 1
    /\ misses = 0
    /\ others = NoOthers
    /\ agent = NoCounts
    /\ dsq = <<>>
    /\ stopped = {}
    /\ inflight = [c \in Cpus |-> Idle]
    /\ popped = <<>>
    /\ host = NoCalls
    /\ main = MainLoop
    /\ thr = NoThreads

(* a second passes *)
AgentTick ==
    /\ ticks < MaxAgentTicks
    /\ TickBy(U64(NSEC_PER_SEC))

NextAgent ==
    \/ \E cpu \in Cpus, pid \in StopTids : Enqueue(cpu, pid, 1)
    \/ \E cpu \in Cpus, dfl \in Cpus : SelectCpu(cpu, dfl, TRUE)
    \/ \E cpu \in Cpus, pid \in StopTids :
           Stopping(cpu, pid, 1, TRUE, 0)
    \/ AgentTick
    \/ RingPoll
    \/ ReadStats
    \/ Restart

SpecAgent == InitAgent /\ [][NextAgent]_vars

(* updates of one cgroup's configuration, and the enqueues that read it.   *)
(* A budget or an importance of 0 is one the source was not given          *)
UpdateWids == {1}
UpdateBudgetsMs == {0, 50, 100}
UpdateImportances == {0, 50, 90}

InitUpdate ==
    /\ Init
    /\ clock = U64(NSEC_PER_SEC)

NextUpdate ==
    \/ \E cpu \in Cpus, pid \in Tids, cg_id \in UpdateWids :
           Enqueue(cpu, pid, cg_id)
    \/ \E cgroup_id \in UpdateWids, budget_ms \in UpdateBudgetsMs,
          importance \in UpdateImportances :
              LoadConfigLine(cgroup_id, budget_ms, importance)
    \/ \E cgID \in UpdateWids, budgetMs \in UpdateBudgetsMs,
          importance \in UpdateImportances :
              WatcherUpdate(cgID, budgetMs, importance)

SpecUpdate == InitUpdate /\ [][NextUpdate]_vars

(* an enqueue against the writers of slo_map.  While an enqueue is under   *)
(* way the entry of its cgroup is changed at most once, so that the entry  *)
(* has two versions during the call: the one its first lookup found and    *)
(* the one its second lookup finds                                         *)
TornBudgetsMs == {50, 100}
TornImportances == {50, 90}

TornLoad(cpu, budget_ms, importance) ==
    /\ inflight[cpu] # Idle =>
           bpf_map_lookup_elem(slo_map, inflight[cpu].cg_id)
               = inflight[cpu].cfg
    /\ LoadConfigLine(1, budget_ms, importance)

NextTorn ==
    \/ \E cpu \in Cpus, pid \in Tids : EnqueueBegin(cpu, pid, 1)
    \/ \E cpu \in Cpus : EnqueueFinish(cpu)
    \/ \E cpu \in Cpus, budget_ms \in TornBudgetsMs,
          importance \in TornImportances :
              TornLoad(cpu, budget_ms, importance)

SpecTorn == InitUpdate /\ [][NextTorn]_vars

(* one task, whose callbacks come from two CPUs: CPU 0 stops it, in two    *)
(* steps, and CPU 1 enqueues it; a second passes only between callbacks    *)
RaceCpus == {0, 1}

InitRace ==
    /\ clock = U64(NSEC_PER_SEC)
    /\ ticks = 0
    /\ slo_map = <<>>
    /\ task_ctx_map = <<>>
    /\ rate_limit_state =
           [c \in RaceCpus |-> [event_count |-> 0, window_start |-> U64(0)]]
    /\ deadline_events = <<>>
    /\ stats = [c \in RaceCpus |-> [i \in {0, 1} |-> 0]]
    /\ rl_obs = [c \in RaceCpus |-> NoObs]
    /\ v_cfg = NULL
    /\ v_res = 1
    /\ misses = 0
    /\ others = NoOthers
    /\ agent = NoCounts
    /\ dsq = <<>>
    /\ stopped = {}
    /\ inflight = [c \in RaceCpus |-> Idle]
    /\ popped = <<>>
    /\ host = NoCalls
    /\ main = MainLoop
    /\ thr = NoThreads

RaceTick ==
    /\ \A c \in RaceCpus : inflight[c] = Idle
    /\ TickBy(U64(NSEC_PER_SEC))

NextRace ==
    \/ \E pid \in StopTids : Enqueue(1, pid, 1)
    \/ \E pid \in StopTids, runnable \in BOOLEAN :
           StoppingBegin(0, pid, 1, runnable)
    \/ StoppingEnd(0)
    \/ RaceTick

SpecRace == InitRace /\ [][NextRace]_vars

(* the life of one task's context: enqueued, put on a CPU and stopped,     *)
(* under the default budget or the budget of its cgroup                    *)
LifeBudgetsMs == {50}
LifeImportances == {90}

LifeTick == TickBy(ms_to_ns(50))

NextLife ==
    \/ \E cpu \in Cpus, pid \in StopTids : Enqueue(cpu, pid, 1)
    \/ \E pid \in StopTids : Running(pid)
    \/ \E cpu \in Cpus, pid \in StopTids, runnable \in BOOLEAN :
           Stopping(cpu, pid, 1, runnable, 0)
    \/ \E budgetMs \in LifeBudgetsMs, importance \in LifeImportances :
           WatcherUpdate(1, budgetMs, importance)
    \/ LifeTick

SpecLife == InitUpdate /\ [][NextLife]_vars

(* the callbacks that count, on two CPUs, and the agent's read of the      *)
(* counters.  task_ctx_map has room for one more task, so that the second  *)
(* task enqueued takes the fallback path                                   *)
CountCpus == {0, 1}

InitCount ==
    /\ clock = U64(NSEC_PER_SEC)
    /\ ticks = 0
    /\ slo_map = [w \in {1} |-> [budget_ns |-> ms_to_ns(50),
                                  importance |-> 90, flags |-> 0]]
    /\ task_ctx_map = <<>>
    /\ rate_limit_state =
           [c \in CountCpus |-> [event_count |-> 0, window_start |-> U64(0)]]
    /\ deadline_events = <<>>
    /\ stats = [c \in CountCpus |-> [i \in {0, 1} |-> 0]]
    /\ rl_obs = [c \in CountCpus |-> NoObs]
    /\ v_cfg = NULL
    /\ v_res = 1
    /\ misses = 0
    /\ others = [slo |-> 0, task |-> MAX_TASKS - 1]
    /\ agent = NoCounts
    /\ dsq = <<>>
    /\ stopped = {}
    /\ inflight = [c \in CountCpus |-> Idle]
    /\ popped = <<>>
    /\ host = NoCalls
    /\ main = MainLoop
    /\ thr = NoThreads

NextCount ==
    \/ \E cpu \in CountCpus, pid \in Tids : Enqueue(cpu, pid, 1)
    \/ \E cpu \in CountCpus, dfl \in CountCpus, is_idle \in BOOLEAN :
           SelectCpu(cpu, dfl, is_idle)
    \/ ReadStats

SpecCount == InitCount /\ [][NextCount]_vars

(* get_task_ctx on CPU 0 against the callbacks of CPU 1 that create and    *)
(* remove contexts, with room left in task_ctx_map for one task or for two *)
CtxCpus == {0, 1}

InitCtx ==
    /\ clock = U64(NSEC_PER_SEC)
    /\ ticks = 0
    /\ slo_map = <<>>
    /\ task_ctx_map = <<>>
    /\ rate_limit_state =
           [c \in CtxCpus |-> [event_count |-> 0, window_start |-> U64(0)]]
    /\ deadline_events = <<>>
    /\ stats = [c \in CtxCpus |-> [i \in {0, 1} |-> 0]]
    /\ rl_obs = [c \in CtxCpus |-> NoObs]
    /\ v_cfg = NULL
    /\ v_res = [pid |-> 0, ctx |-> NULL]
    /\ misses = 0
    /\ others \in {[slo |-> 0, task |-> MAX_TASKS - 2],
                    [slo |-> 0, task |-> MAX_TASKS - 1]}
    /\ agent = NoCounts
    /\ dsq = <<>>
    /\ stopped = {}
    /\ inflight = [c \in CtxCpus |-> Idle]
    /\ popped = <<>>
    /\ host = NoCalls
    /\ main = MainLoop
    /\ thr = NoThreads

NextCtx ==
    \/ \E pid \in Tids : EnableLookup(0, pid)
    \/ EnableUpdate(0)
    \/ EnableRelookup(0)
    \/ \E pid \in Tids : Enqueue(1, pid, 1)
    \/ \E pid \in Tids : Stopping(1, pid, 1, FALSE, 0)

SpecCtx == InitCtx /\ [][NextCtx]_vars

(* the agent process from its start: attach, serve, clean up, restart,     *)
(* with the health server on its default port or disabled                  *)
HealthPorts == {0, 8080}
HealthMethods == {"GET", "POST"}
HealthPaths == {"/health", "/healthz", "/ready", "/readyz"}
OtherPaths == {"/metrics", "/"}

InitHealth ==
    /\ clock = U64(NSEC_PER_SEC)
    /\ ticks = 0
    /\ slo_map = <<>>
    /\ task_ctx_map = <<>>
    /\ rate_limit_state =
           [c \in Cpus |-> [event_count |-> 0, window_start |-> U64(0)]]
    /\ deadline_events = <<>>
    /\ stats = [c \in Cpus |-> [i \in {0, 1} |-> 0]]
    /\ rl_obs = [c \in Cpus |-> NoObs]
    /\ v_cfg = NULL
    /\ v_res = [method |-> "", path |-> "", status |-> 0]
    /\ misses = 0
    /\ others = NoOthers
    /\ agent = NoCounts
    /\ dsq = <<>>
    /\ stopped = {}
    /\ inflight = [c \in Cpus |-> Idle]
    /\ popped = <<>>
    /\ host = NoCalls
    /\ main \in {[pc |-> "open", scheduler_attached |-> 0, exit_req |-> 0,
                   health_thread_running |-> FALSE, thread |-> "none",
                   health_port |-> port, rb |-> FALSE, link |-> FALSE,
                   skel |-> FALSE, uei |-> "none", restarts |-> 0] :
                      port \in HealthPorts}
    /\ thr = NoThreads

NextHealth ==
    \/ \E ok \in BOOLEAN : MainAttach(ok)
    \/ \E rb_ok \in BOOLEAN, cfg_ok \in BOOLEAN, srv_ok \in BOOLEAN :
           MainSetup(rb_ok, cfg_ok, srv_ok)
    \/ Signal
    \/ \E restart \in BOOLEAN : KernelExit(restart)
    \/ MainLoopExit
    \/ MainPollError
    \/ MainStopServer
    \/ MainFreeRing
    \/ MainDestroyLink
    \/ MainDestroy
    \/ ThreadExit
    \/ \E method \in HealthMethods, path \in HealthPaths \cup OtherPaths :
           HealthRequest(method, path)

SpecHealth == InitHealth /\ [][NextHealth]_vars

(* the same with main() going on whenever it can: the process is scheduled, *)
(* the poll of its loop has a timeout of 100 ms and its sleep lasts 1 s or  *)
(* until a signal, stop_health_server waits 5 s at most for the thread      *)
SpecHealthFair ==
    /\ SpecHealth
    /\ WF_vars(\E ok \in BOOLEAN : MainAttach(ok))
    /\ WF_vars(\E rb_ok \in BOOLEAN, cfg_ok \in BOOLEAN, srv_ok \in BOOLEAN :
                   MainSetup(rb_ok, cfg_ok, srv_ok))
    /\ WF_vars(MainLoopExit)
    /\ WF_vars(MainStopServer)
    /\ WF_vars(MainFreeRing)
    /\ WF_vars(MainDestroyLink)
    /\ WF_vars(MainDestroy)

(* the limiters of two CPUs, each fresh or one short of its limit, and the *)
(* misses of one task stopped on either CPU                                *)
LimitCpus == {0, 1}

InitLimit ==
    /\ clock = U64(NSEC_PER_SEC)
    /\ ticks = 0
    /\ slo_map = <<>>
    /\ task_ctx_map = <<>>
    /\ rate_limit_state \in
           [LimitCpus -> {[event_count |-> 0, window_start |-> U64(0)],
                          [event_count |-> MAX_EVENTS_PER_SEC - 1,
                           window_start |-> U64(NSEC_PER_SEC)]}]
    /\ deadline_events = <<>>
    /\ stats = [c \in LimitCpus |-> [i \in {0, 1} |-> 0]]
    /\ rl_obs = [c \in LimitCpus |-> NoObs]
    /\ v_cfg = NULL
    /\ v_res = 1
    /\ misses = 0
    /\ others = NoOthers
    /\ agent = NoCounts
    /\ dsq = <<>>
    /\ stopped = {}
    /\ inflight = [c \in LimitCpus |-> Idle]
    /\ popped = <<>>
    /\ host = NoCalls
    /\ main = MainLoop
    /\ thr = NoThreads

NextLimit ==
    \/ \E pid \in StopTids : Enqueue(0, pid, 1)
    \/ \E cpu \in LimitCpus, pid \in StopTids :
           Stopping(cpu, pid, 1, TRUE, 0)
    \/ \E pid \in StopTids : TickToDeadline(pid)
    \/ TickBy(U64(1))
    \/ RingPoll

SpecLimit == InitLimit /\ [][NextLimit]_vars

(* load_slo_config on configuration files of one or two lines, with room   *)
(* in slo_map or none.  The lines: a comment, an empty line, two entries   *)
(* for the cgroup /a, an entry without importance, one with a budget of 0, *)
(* one for a cgroup that does not exist, and a comment longer than the     *)
(* buffer of fgets that ends in the text of an entry                       *)
Pad(n) == [i \in 1..n |-> "x"]

ConfigLines ==
    {<<"#", " ", "c">>,
     <<>>,
     <<"/", "a", " ", "5", "0", " ", "9", "0">>,
     <<"/", "a", " ", "1", "0", "0", " ", "5", "0">>,
     <<"/", "a", " ", "5", "0">>,
     <<"/", "a", " ", "0", " ", "9", "0">>,
     <<"/", "b", " ", "5", "0", " ", "9", "0">>,
     <<"#">> \o Pad(MAX_LINE_LENGTH - 2)
         \o <<"/", "a", " ", "2", "0", " ", "1", "0">>}

ConfigFiles ==
    {<<l>> : l \in ConfigLines}
        \cup {<<l1, l2>> : l1 \in ConfigLines, l2 \in ConfigLines}

(* the characters of a file: its lines, each ended by a newline *)
RECURSIVE file_text(_)
file_text(lines) ==
    IF lines = <<>> THEN <<>>
    ELSE Head(lines) \o <<"nl">> \o file_text(Tail(lines))

InitLoad ==
    /\ clock = U64(NSEC_PER_SEC)
    /\ ticks = 0
    /\ slo_map = <<>>
    /\ task_ctx_map = <<>>
    /\ rate_limit_state =
           [c \in Cpus |-> [event_count |-> 0, window_start |-> U64(0)]]
    /\ deadline_events = <<>>
    /\ stats = [c \in Cpus |-> [i \in {0, 1} |-> 0]]
    /\ rl_obs = [c \in Cpus |-> NoObs]
    /\ v_cfg \in
           {[at |-> "fopen", errno |-> "", lines |-> f, text |-> file_text(f),
             entries_loaded |-> 0] : f \in ConfigFiles}
           \cup {[at |-> "fopen", errno |-> e, lines |-> <<>>, text |-> <<>>,
                   entries_loaded |-> 0] : e \in {"ENOENT", "EACCES"}}
    /\ v_res = NULL
    /\ misses = 0
    /\ others \in {NoOthers, [slo |-> MAX_CGROUPS, task |-> 0]}
    /\ agent = NoCounts
    /\ dsq = <<>>
    /\ stopped = {}
    /\ inflight = [c \in Cpus |-> Idle]
    /\ popped = <<>>
    /\ host = NoCalls
    /\ main = MainLoop
    /\ thr = NoThreads

NextLoad == LoadOpenFailed \/ LoadOpen \/ LoadLoop \/ LoadReturn

SpecLoad == InitLoad /\ [][NextLoad]_vars

(* the agent's main thread handling events and reading the counters, the   *)
(* health thread serving /metrics, and the scheduler counting meanwhile    *)
MetricsMisses == {ms_to_ns(3), ms_to_ns(5)}

InitMetrics ==
    /\ clock = U64(NSEC_PER_SEC)
    /\ ticks = 0
    /\ slo_map = <<>>
    /\ task_ctx_map = <<>>
    /\ rate_limit_state =
           [c \in Cpus |-> [event_count |-> 0, window_start |-> U64(0)]]
    /\ deadline_events = <<>>
    /\ stats = [c \in Cpus |-> [i \in {0, 1} |-> 0]]
    /\ rl_obs = [c \in Cpus |-> NoObs]
    /\ v_cfg = NULL
    /\ v_res = 1
    /\ misses = 0
    /\ others = NoOthers
    /\ agent = NoCounts
    /\ dsq = <<>>
    /\ stopped = {}
    /\ inflight = [c \in Cpus |-> Idle]
    /\ popped = <<>>
    /\ host = NoCalls
    /\ main = MainLoop
    /\ thr = NoThreads

NextMetrics ==
    \/ \E miss \in MetricsMisses :
           EventLock([cgroup_id |-> 1, deadline_miss_ns |-> miss,
                      timestamp |-> clock])
    \/ EventCount
    \/ EventAdd
    \/ EventUnlock
    \/ StatsSum
    \/ StatsLock
    \/ StatsStore
    \/ StatsUnlock
    \/ MetricsLock
    \/ MetricsRead
    \/ MetricsUnlock
    \/ \E cpu \in Cpus : Enqueue(cpu, 1, 1)
    \/ \E cpu \in Cpus : SelectCpu(cpu, cpu, TRUE)

SpecMetrics == InitMetrics /\ [][NextMetrics]_vars

(* the consumer of the ring, handed records of any size and content *)
RecordSizes == {0, 8, 23, 24, 25, 124}
RecordMisses ==
    {U64(0), ms_to_ns(3), ms_to_ns(5), ms_to_ns(7), ms_to_ns(10), U64_MAX}

NextConsumer ==
    \E data_sz \in RecordSizes, miss \in RecordMisses :
        HandleRecord([cgroup_id |-> 1, deadline_miss_ns |-> miss,
                      timestamp |-> clock], data_sz)

SpecConsumer == InitAgent /\ [][NextConsumer]_vars

(* the maps at their capacity.  The maps start with entries for cgroups    *)
(* and tasks other than those of the model, one short of max_entries or    *)
(* max_entries of them                                                     *)
CapWids == {1, 2}
CapBudgetsMs == {50}
CapImportances == {1, 90}

InitCap ==
    /\ clock = U64(NSEC_PER_SEC)
    /\ ticks = 0
    /\ slo_map = <<>>
    /\ task_ctx_map = <<>>
    /\ rate_limit_state =
           [c \in Cpus |-> [event_count |-> 0, window_start |-> U64(0)]]
    /\ deadline_events = <<>>
    /\ stats = [c \in Cpus |-> [i \in {0, 1} |-> 0]]
    /\ rl_obs = [c \in Cpus |-> NoObs]
    /\ v_cfg = NULL
    /\ v_res = 1
    /\ misses = 0
    /\ others \in {[slo |-> MAX_CGROUPS - 1, task |-> MAX_TASKS - 1],
                    [slo |-> MAX_CGROUPS, task |-> MAX_TASKS]}
    /\ agent = NoCounts
    /\ dsq = <<>>
    /\ stopped = {}
    /\ inflight = [c \in Cpus |-> Idle]
    /\ popped = <<>>
    /\ host = NoCalls
    /\ main = MainLoop
    /\ thr = NoThreads

NextCap ==
    \/ \E cpu \in Cpus, pid \in Tids, cg_id \in Wids : Enqueue(cpu, pid, cg_id)
    \/ \E cpu \in Cpus : Dispatch(cpu)
    \/ \E pid \in Tids : Enable(pid)
    \/ \E cpu \in Cpus, pid \in Tids, cg_id \in Wids, runnable \in BOOLEAN :
           Stopping(cpu, pid, cg_id, runnable, 0)
    \/ \E cgroup_id \in CapWids, budget_ms \in CapBudgetsMs,
          importance \in CapImportances :
              LoadConfigLine(cgroup_id, budget_ms, importance)
    \/ \E cgID \in CapWids, budgetMs \in CapBudgetsMs,
          importance \in CapImportances :
              WatcherUpdate(cgID, budgetMs, importance)

SpecCap == InitCap /\ [][NextCap]_vars

(* the host asks for a task whenever a CPU has none to run *)
SpecCapFair == SpecCap /\ WF_vars(\E cpu \in Cpus : Dispatch(cpu))

(* the queue.  Four tasks on two CPUs; slo_map holds what the             *)
(* configuration file has given for four cgroups: budgets of 100, 50, 200  *)
(* and 75 ms at importance 1, which leaves the budget unscaled.  Task      *)
(* 1004 runs in cgroup 4 or in cgroup 2, the cgroup of task 1002           *)
QueueCpus == {0, 1}
QueueTids == {1001, 1002, 1003, 1004}
QueueBudgetsMs == <<100, 50, 200, 75>>

QueueCgroups(pid) ==
    IF pid = 1001 THEN {1}
    ELSE IF pid = 1002 THEN {2}
    ELSE IF pid = 1003 THEN {3}
    ELSE {4, 2}

InitQueue ==
    /\ clock = U64(NSEC_PER_SEC)
    /\ ticks = 0
    /\ slo_map = [w \in DOMAIN QueueBudgetsMs |->
                      [budget_ns |-> ms_to_ns(QueueBudgetsMs[w]),
                       importance |-> 1, flags |-> 0]]
    /\ task_ctx_map = <<>>
    /\ rate_limit_state =
           [c \in QueueCpus |-> [event_count |-> 0, window_start |-> U64(0)]]
    /\ deadline_events = <<>>
    /\ stats = [c \in QueueCpus |-> [i \in {0, 1} |-> 0]]
    /\ rl_obs = [c \in QueueCpus |-> NoObs]
    /\ v_cfg = NULL
    /\ v_res = 1
    /\ misses = 0
    /\ others = NoOthers
    /\ agent = NoCounts
    /\ dsq = <<>>
    /\ stopped = {}
    /\ inflight = [c \in QueueCpus |-> Idle]
    /\ popped = <<>>
    /\ host = NoCalls
    /\ main = MainLoop
    /\ thr = NoThreads

NextQueue ==
    \/ \E cpu \in QueueCpus, pid \in QueueTids :
           \E cg_id \in QueueCgroups(pid) : Enqueue(cpu, pid, cg_id)
    \/ \E cpu \in QueueCpus : Dispatch(cpu)

SpecQueue == InitQueue /\ [][NextQueue]_vars

(* ------------------------------------------------------------ properties *)

(* clamp(importance, 1, 100) *)
Clamp(importance) ==
    IF importance < MIN_IMPORTANCE THEN MIN_IMPORTANCE
    ELSE IF importance > MAX_IMPORTANCE THEN MAX_IMPORTANCE
    ELSE importance

(* the SloCfg invariants of a record, flags left aside *)
InRange(c) ==
    /\ U64Le(MIN_BUDGET_NS, c.budget_ns)
    /\ U64Le(c.budget_ns, MAX_BUDGET_NS)
    /\ c.importance >= MIN_IMPORTANCE
    /\ c.importance <= MAX_IMPORTANCE

(* floor(budget * (101 - imp) / 100) *)
Eff(budget_ns, imp) == U64Div(U64Mul(budget_ns, 101 - imp), 100)

(* now + eff, or U64_MAX when eff > U64_MAX - now *)
SatAdd(now, eff) ==
    IF U64Gt(eff, U64Sub(U64_MAX, now)) THEN U64_MAX ELSE U64Add(now, eff)

C3_FallbackBudget ==
    [][\A cpu \in Cpus, pid \in Tids, cg_id \in Wids :
          (/\ Enqueue(cpu, pid, cg_id)
           /\ cg_id \in DOMAIN slo_map => ~InRange(slo_map[cg_id])
           /\ pid \in DOMAIN task_ctx_map')
          => task_ctx_map'[pid].budget_ns = U64Mul(U64(NSEC_PER_MSEC), 100)]_vars

(* C3: a cfg of 20 s, over MAX_BUDGET_NS, is stored for cgroup 1, and the  *)
(* task enqueued under it holds the default budget, weighted by the        *)
(* importance 90 of that cfg                                               *)
C3_Witness ==
    /\ clock = U64(NSEC_PER_SEC)
    /\ 1 \in DOMAIN slo_map
    /\ slo_map[1].budget_ns = ms_to_ns(20000)
    /\ slo_map[1].importance = 90
    /\ 1 \in DOMAIN task_ctx_map
    /\ task_ctx_map[1].valid = 1
    /\ task_ctx_map[1].budget_ns = DEFAULT_BUDGET_NS
    /\ task_ctx_map[1].deadline = U64Add(clock, U64(11000000))

(* C4: every enqueue whose cgroup has no stored cfg, or a stored cfg that  *)
(* does not validate, and that obtains a task context, uses importance 50: *)
(* the deadline is now + DEFAULT_BUDGET_NS * 51 / 100, saturating          *)
C4_FallbackImportance ==
    [][\A cpu \in Cpus, pid \in Tids, cg_id \in Wids :
          (/\ Enqueue(cpu, pid, cg_id)
           /\ cg_id \in DOMAIN slo_map => ~InRange(slo_map[cg_id])
           /\ pid \in DOMAIN task_ctx_map')
          => task_ctx_map'[pid].deadline =
                 SatAdd(clock, Eff(DEFAULT_BUDGET_NS, 50))]_vars

(* C5: the validator accepts a candidate if and only if it is not NULL,    *)
(* its budget_ns is within [MIN_BUDGET_NS, MAX_BUDGET_NS], its importance  *)
(* within [1,100] and its flags are 0                                      *)
C5_ValidatorAcceptsIff ==
    v_res # 1 =>
        (v_res = 0 <=> /\ ~v_cfg.null
                       /\ InRange(v_cfg.val)
                       /\ v_cfg.val.flags = 0)

(* C6: every entry of slo_map has its budget_ns within [MIN_BUDGET_NS,     *)
(* MAX_BUDGET_NS], its importance within [1,100] and flags = 0             *)
C6_StoreHoldsValidRecords ==
    \A cgroup_id \in DOMAIN slo_map :
        InRange(slo_map[cgroup_id]) /\ slo_map[cgroup_id].flags = 0

(* what the limiter answers to a miss detected by a stopping call whose    *)
(* own clock read comes later ns after the handler's                       *)
Permitted(cpu, later) ==
    ~is_rate_limited(rate_limit_state[cpu], U64Add(clock, U64(later))).ret

(* the step appends one record to the ring *)
Emitted == Len(deadline_events') = Len(deadline_events) + 1

(* C7, as stated: a stopping call on a task with a valid context emits an  *)
(* event if and only if the clock is past the stored deadline and the      *)
(* limiter permits it, and the event carries now - deadline                *)
C7_EventIffMissAndPermitted ==
    [][\A cpu \in Cpus, pid \in StopTids, cg_id \in Wids,
          runnable \in BOOLEAN, later \in {0, 1} :
          (/\ Stopping(cpu, pid, cg_id, runnable, later)
           /\ pid \in DOMAIN task_ctx_map
           /\ task_ctx_map[pid].valid # 0)
          => /\ Emitted <=> /\ U64Gt(clock, task_ctx_map[pid].deadline)
                            /\ Permitted(cpu, later)
             /\ Emitted =>
                    deadline_events'[Len(deadline_events')].deadline_miss_ns =
                        U64Sub(clock, task_ctx_map[pid].deadline)]_vars

(* C7, amended: a stopping call on a task with a valid context emits an    *)
(* event if and only if the clock is past the stored deadline, the limiter *)
(* permits it and the ring has room for the record; the event carries      *)
(* now - deadline and is appended to the ring                              *)
C7_EventIffMissPermittedAndRoom ==
    [][\A cpu \in Cpus, pid \in StopTids, cg_id \in Wids,
          runnable \in BOOLEAN, later \in {0, 1} :
          (/\ Stopping(cpu, pid, cg_id, runnable, later)
           /\ pid \in DOMAIN task_ctx_map
           /\ task_ctx_map[pid].valid # 0)
          => IF /\ U64Gt(clock, task_ctx_map[pid].deadline)
                /\ Permitted(cpu, later)
                /\ Len(deadline_events) < MaxRingRecords
             THEN deadline_events' =
                      Append(deadline_events,
                             [cgroup_id |-> cg_id,
                              deadline_miss_ns |->
                                  U64Sub(clock, task_ctx_map[pid].deadline),
                              timestamp |-> clock])
             ELSE deadline_events' = deadline_events]_vars

(* C7: the task was stopped 1 ns past its deadline and stayed runnable;    *)
(* the ring holds the event of that one miss                               *)
C7_Witness ==
    /\ misses = 1
    /\ 1 \in DOMAIN task_ctx_map
    /\ task_ctx_map[1].valid = 1
    /\ clock = U64Add(task_ctx_map[1].deadline, U64(1))
    /\ Len(deadline_events) = 1
    /\ deadline_events[1].deadline_miss_ns = U64(1)
    /\ deadline_events[1].timestamp = clock

(* C8: a stopping call made when the clock is at or before the deadline    *)
(* stored for the task appends nothing to the ring                         *)
C8_NoEventAtOrBeforeDeadline ==
    [][\A cpu \in Cpus, pid \in StopTids, cg_id \in Wids,
          runnable \in BOOLEAN, later \in {0, 1} :
          (/\ Stopping(cpu, pid, cg_id, runnable, later)
           /\ pid \in DOMAIN task_ctx_map
           /\ U64Le(clock, task_ctx_map[pid].deadline))
          => deadline_events' = deadline_events]_vars

(* C8: the task enqueued at 1 s was stopped for good no later than its     *)
(* deadline, which the clock has reached: no miss was detected and the     *)
(* ring is empty                                                           *)
C8_Witness ==
    /\ stats[0][1] = 1
    /\ ticks = 1
    /\ clock = SatAdd(U64(NSEC_PER_SEC), Eff(DEFAULT_BUDGET_NS, 50))
    /\ task_ctx_map = <<>>
    /\ misses = 0
    /\ deadline_events = <<>>

C10_WindowPermitsFirstMaxCalls ==
    [][\A cpu \in Cpus :
          RateLimitCall(cpu)
          => LET st == rate_limit_state[cpu]
                 late == U64Gt(U64Sub(clock, st.window_start),
                               RATE_LIMIT_WINDOW_NS)
             IN  IF late
                 THEN /\ rl_obs'[cpu].last = "opened"
                      /\ rate_limit_state'[cpu] =
                             [event_count |-> 1, window_start |-> clock]
                 ELSE /\ rl_obs'[cpu].last =
                             IF rl_obs[cpu].calls < MAX_EVENTS_PER_SEC
                             THEN "permitted" ELSE "denied"
                      /\ rate_limit_state'[cpu].window_start = st.window_start
                      /\ rl_obs'[cpu].permits =
                             IF rl_obs[cpu].calls < MAX_EVENTS_PER_SEC
                             THEN rl_obs[cpu].calls + 1
                             ELSE MAX_EVENTS_PER_SEC]_vars

(* C10: the call after the first MAX_EVENTS_PER_SEC of the first window    *)
(* has just been denied                                                    *)
C10_Witness ==
    /\ rate_limit_state[0].window_start = U64(0)
    /\ rl_obs[0].calls = MAX_EVENTS_PER_SEC + 1
    /\ rl_obs[0].permits = MAX_EVENTS_PER_SEC
    /\ rl_obs[0].last = "denied"

(* C11: whenever stopping detects a miss and sends no event for it, the    *)
(* limiter having refused it or the ring having no room, one counter of    *)
(* the scheduler or of the agent grows by exactly one, so that the misses  *)
(* detected are the events sent plus the misses counted as dropped         *)
C11_UndeliveredMissIsCounted ==
    [][\A cpu \in Cpus, pid \in StopTids, cg_id \in Wids,
          runnable \in BOOLEAN, later \in {0, 1} :
          /\ Stopping(cpu, pid, cg_id, runnable, later)
          /\ misses' = misses + 1
          /\ deadline_events' = deadline_events
          => \/ \E c \in Cpus, idx \in {0, 1} :
                    stats'[c][idx] = stats[c][idx] + 1
             \/ agent'.total_deadline_misses =
                    agent.total_deadline_misses + 1]_vars

(* entries a map holds, those of keys outside the model included *)
Held(map, rest) == Cardinality(DOMAIN map) + rest

(* C12: at every moment slo_map holds at most MAX_CGROUPS (10000) entries  *)
(* and task_ctx_map at most MAX_TASKS (100000)                             *)
C12_MapsWithinCapacity ==
    /\ Held(slo_map, others.slo) <= MAX_CGROUPS
    /\ Held(task_ctx_map, others.task) <= MAX_TASKS

(* C12: both maps are full, each with an entry that a configuration source *)
(* or a callback has added                                                 *)
C12_Witness ==
    /\ Held(slo_map, others.slo) = MAX_CGROUPS
    /\ Held(task_ctx_map, others.task) = MAX_TASKS
    /\ slo_map # <<>>
    /\ task_ctx_map # <<>>

(* C13: when slo_map is full, a configuration source's update for a cgroup *)
(* that has no entry is refused and leaves every entry as it was, nothing  *)
(* being evicted; an update for a cgroup that has an entry replaces that   *)
(* entry and leaves the others as they were                                *)
C13_FullStoreRefusesNewKeyReplacesOld ==
    [][\A w \in CapWids, b \in CapBudgetsMs, i \in CapImportances :
          /\ LoadConfigLine(w, b, i) \/ WatcherUpdate(w, b, i)
          /\ Held(slo_map, others.slo) = MAX_CGROUPS
          => /\ others' = others
             /\ IF w \in DOMAIN slo_map
                THEN slo_map' =
                         [slo_map EXCEPT ![w] = [budget_ns |-> ms_to_ns(b),
                                                 importance |-> i,
                                                 flags |-> 0]]
                ELSE slo_map' = slo_map]_vars

(* C13: the map is full; cgroup 1 has an entry, which an update has        *)
(* replaced or may replace, and cgroup 2 has none                          *)
C13_Witness ==
    /\ Held(slo_map, others.slo) = MAX_CGROUPS
    /\ DOMAIN slo_map = {1}
    /\ slo_map[1].importance = 90

(* C17: an enqueue of a task that has no context, made when task_ctx_map   *)
(* is full, still puts the task on SHARED_DSQ and still counts one global  *)
(* enqueue, and creates or changes no context; and a task that is on the   *)
(* queue is taken off it by a later dispatch                               *)
C17_EnqueueWithoutContextStillQueues ==
    /\ [][\A cpu \in Cpus, pid \in Tids, cg_id \in Wids :
             /\ Enqueue(cpu, pid, cg_id)
             /\ pid \notin DOMAIN task_ctx_map
             /\ Held(task_ctx_map, others.task) >= MAX_TASKS
             => /\ task_ctx_map' = task_ctx_map
                /\ stats'[cpu][1] = stats[cpu][1] + 1
                /\ Cardinality({n \in 1..Len(dsq') : dsq'[n].pid = pid}) = 1]_vars
    /\ \A pid \in Tids :
           (\E n \in 1..Len(dsq) : dsq[n].pid = pid)
               ~> (\A n \in 1..Len(dsq) : dsq[n].pid # pid)

(* C17: task 2 was enqueued without a context: it is on the queue in FIFO  *)
(* order and has no entry in the full task_ctx_map                         *)
C17_Witness ==
    /\ Held(task_ctx_map, others.task) = MAX_TASKS
    /\ 2 \notin DOMAIN task_ctx_map
    /\ \E n \in 1..Len(dsq) : dsq[n].pid = 2 /\ ~dsq[n].priq
    /\ stats[0][1] >= 1

(* C14: once stopping has been called for a task with runnable false, and  *)
(* until another callback is made for the task, task_ctx_map holds no      *)
(* entry for it, whatever came before                                      *)
C14_NoContextAfterFinalStop ==
    \A pid \in stopped : pid \notin DOMAIN task_ctx_map

(* the sequence without its k-th element *)
Without(q, k) == SubSeq(q, 1, k - 1) \o SubSeq(q, k + 1, Len(q))

(* the position of the task on the queue *)
PosOf(q, pid) == CHOOSE n \in 1..Len(q) : q[n].pid = pid

C16_ReportedCountersNeverDecrease ==
    [][/\ agent'.last_local_dispatches >= agent.last_local_dispatches
       /\ agent'.last_global_dispatches >= agent.last_global_dispatches
       /\ agent'.total_deadline_misses >= agent.total_deadline_misses
       /\ U64Le(agent.total_miss_duration_ns,
                agent'.total_miss_duration_ns)]_vars

(* C20: an update of a cgroup's configuration that has been made is what   *)
(* every later reader finds: a line of the configuration file that         *)
(* validates, or a pod event of the watcher, leaves its record in slo_map, *)
(* and an enqueue uses the record slo_map holds at that moment, so that an *)
(* enqueue made after the budget went from 100 ms to 50 ms stores          *)
(* budget_ns = 50 ms                                                       *)
C20_EnqueueUsesLatestStoredConfig ==
    /\ [][\A w \in UpdateWids, b \in UpdateBudgetsMs, i \in UpdateImportances :
             LoadConfigLine(w, b, i) /\ validate_config_entry(b, i) = 0
             => /\ w \in DOMAIN slo_map'
                /\ slo_map'[w] = [budget_ns |-> ms_to_ns(b),
                                  importance |-> i, flags |-> 0]]_vars
    /\ [][\A w \in UpdateWids, b \in UpdateBudgetsMs \ {0},
             i \in UpdateImportances \ {0} :
             WatcherUpdate(w, b, i)
             => /\ w \in DOMAIN slo_map'
                /\ slo_map'[w] = [budget_ns |-> ms_to_ns(b),
                                  importance |-> i, flags |-> 0]]_vars
    /\ [][\A cpu \in Cpus, pid \in Tids, cg_id \in UpdateWids :
             /\ Enqueue(cpu, pid, cg_id)
             /\ cg_id \in DOMAIN slo_map
             => /\ task_ctx_map'[pid].budget_ns = slo_map[cg_id].budget_ns
                /\ task_ctx_map'[pid].deadline =
                       SatAdd(clock, Eff(slo_map[cg_id].budget_ns,
                                         slo_map[cg_id].importance))]_vars

(* C20: cgroup 1 had a budget of 100 ms, under which task 1 was enqueued,  *)
(* and has one of 50 ms at importance 90 now, under which task 2 was       *)
(* enqueued                                                                *)
C20_Witness ==
    /\ 1 \in DOMAIN slo_map
    /\ slo_map[1] = [budget_ns |-> ms_to_ns(50), importance |-> 90,
                     flags |-> 0]
    /\ DOMAIN task_ctx_map = {1, 2}
    /\ task_ctx_map[1].budget_ns = ms_to_ns(100)
    /\ task_ctx_map[1].deadline =
           SatAdd(clock, Eff(ms_to_ns(100), 50))
    /\ task_ctx_map[2].budget_ns = ms_to_ns(50)
    /\ task_ctx_map[2].deadline = SatAdd(clock, Eff(ms_to_ns(50), 90))
    /\ clock = U64(NSEC_PER_SEC)

(* the budget and the importance an enqueue takes from an entry of        *)
(* slo_map, or from its absence                                            *)
PairOf(cfg) ==
    IF cfg.null THEN [budget_ns |-> DEFAULT_BUDGET_NS, importance |-> 50]
    ELSE [budget_ns |-> cfg.val.budget_ns, importance |-> cfg.val.importance]

(* C18: whatever updates of slo_map run between the steps of an enqueue,   *)
(* the budget and the importance the enqueue uses are those of one version *)
(* of its cgroup's entry: the one before the update or the one after it,   *)
(* or 100 ms and 50 for an absent entry                                    *)
C18_BudgetAndImportanceOfOneVersion ==
    [][\A cpu \in Cpus :
          EnqueueFinish(cpu)
          => LET e == inflight[cpu]
             IN  \E v \in {PairOf(e.cfg),
                            PairOf(bpf_map_lookup_elem(slo_map, e.cg_id))} :
                     /\ task_ctx_map'[e.pid].budget_ns = v.budget_ns
                     /\ task_ctx_map'[e.pid].deadline =
                            SatAdd(e.now, Eff(v.budget_ns, v.importance))]_vars

(* C19: when an enqueue of a task has run on one CPU while a stopping of   *)
(* the same task with runnable false was under way on another, the task's  *)
(* context and the events sent are those of one of the two serial orders:  *)
(* either the stopping came first, has sent what it sent and the context   *)
(* the enqueue wrote is there; or the enqueue came first, the stopping     *)
(* found the deadline the enqueue stored, which has not passed, has sent   *)
(* no event and the context is gone                                        *)
C19_RaceEqualsSomeSerialOrder ==
    [][\A cpu \in RaceCpus :
          /\ StoppingEnd(cpu)
          /\ inflight[cpu].pid \in DOMAIN task_ctx_map
          /\ task_ctx_map[inflight[cpu].pid] # inflight[cpu].ctx.val
          => LET e == inflight[cpu]
             IN  \/ /\ e.pid \in DOMAIN task_ctx_map'
                    /\ task_ctx_map'[e.pid] = task_ctx_map[e.pid]
                 \/ /\ e.pid \notin DOMAIN task_ctx_map'
                    /\ ~deadline_missed(e.now, task_ctx_map[e.pid].deadline)
                    /\ ~e.emitted]_vars

C23_ConsumerCountsFullRecordsOnly ==
    [][\A data_sz \in RecordSizes, miss \in RecordMisses :
          HandleRecord([cgroup_id |-> 1, deadline_miss_ns |-> miss,
                        timestamp |-> clock], data_sz)
          => IF data_sz < 24
             THEN agent' = agent
             ELSE /\ agent'.total_deadline_misses =
                         agent.total_deadline_misses + 1
                  /\ agent'.total_miss_duration_ns =
                         U64Add(agent.total_miss_duration_ns, miss)
                  /\ agent'.last_local_dispatches =
                         agent.last_local_dispatches
                  /\ agent'.last_global_dispatches =
                         agent.last_global_dispatches]_vars

(* C23: four records with misses of 5, 10, 3 and 7 ms have been counted:   *)
(* 4 misses, 25 ms in all                                                  *)
C23_Witness ==
    /\ agent.total_deadline_misses = 4
    /\ agent.total_miss_duration_ns = ms_to_ns(25)

(* C30: every event a stopping call emits carries the cgroup id given to   *)
(* the call, the clock value the call read as its timestamp, and as its    *)
(* deadline_miss_ns the timestamp less the deadline stored for the task,   *)
(* which is at least 1; no record of the ring has deadline_miss_ns = 0     *)
C30_EventFieldsAreThoseOfTheStop ==
    /\ [][\A cpu \in Cpus, pid \in StopTids, cg_id \in Wids,
            runnable \in BOOLEAN, later \in {0, 1} :
            (Stopping(cpu, pid, cg_id, runnable, later) /\ Emitted)
            => LET e == deadline_events'[Len(deadline_events')]
                   deadline == task_ctx_map[pid].deadline
               IN  /\ e.cgroup_id = cg_id
                   /\ e.timestamp = clock
                   /\ U64Gt(e.timestamp, deadline)
                   /\ U64Add(deadline, e.deadline_miss_ns) = e.timestamp
                   /\ U64Le(U64(1), e.deadline_miss_ns)]_vars
    /\ [](\A i \in 1..Len(deadline_events) :
              deadline_events[i].deadline_miss_ns # U64(0))

(* C30: the task of cgroup 2 was stopped 1 ns past its deadline and stayed *)
(* runnable; the ring holds the event with cgroup id 2, that timestamp and *)
(* a miss of 1 ns, and the limiter read the clock 1 ns later               *)
C30_Witness ==
    /\ 1 \in DOMAIN task_ctx_map
    /\ Len(deadline_events) = 1
    /\ deadline_events[1].cgroup_id = 2
    /\ deadline_events[1].deadline_miss_ns = U64(1)
    /\ deadline_events[1].timestamp =
           U64Add(task_ctx_map[1].deadline, U64(1))
    /\ clock = U64Add(deadline_events[1].timestamp, U64(1))

(* start times and budgets a context could hold in place of its own *)
OtherRuns(ctx) ==
    {[ctx EXCEPT !.start_time = st, !.budget_ns = b] :
        st \in {U64(0), U64(NSEC_PER_SEC), ctx.deadline, clock},
        b \in {U64(0), MIN_BUDGET_NS, MAX_BUDGET_NS}}

(* C25: whether a stopping call on a valid context detects a miss is       *)
(* decided by the clock it reads and the deadline stored, and by nothing   *)
(* else: it detects one exactly when the clock is past the deadline, and   *)
(* would decide the same had the context any other start_time or budget_ns *)
C25_MissDependsOnClockAndDeadlineOnly ==
    [][\A cpu \in Cpus, pid \in StopTids, cg_id \in Wids,
          runnable \in BOOLEAN, later \in {0, 1} :
          (/\ Stopping(cpu, pid, cg_id, runnable, later)
           /\ pid \in DOMAIN task_ctx_map
           /\ task_ctx_map[pid].valid # 0)
          => /\ misses' = misses + 1
                    <=> U64Gt(clock, task_ctx_map[pid].deadline)
             /\ misses' = misses
                    <=> U64Le(clock, task_ctx_map[pid].deadline)
             /\ \A other \in OtherRuns(task_ctx_map[pid]) :
                    stopping_missed(clock, other) <=> misses' = misses + 1]_vars

(* C25: the task was put on a CPU after its enqueue and has run for less   *)
(* than its budget, yet was stopped past its deadline: the miss is in the  *)
(* ring                                                                    *)
C25_Witness ==
    /\ 1 \in DOMAIN task_ctx_map
    /\ task_ctx_map[1].valid = 1
    /\ U64Gt(task_ctx_map[1].start_time, U64(NSEC_PER_SEC))
    /\ U64Lt(U64Sub(clock, task_ctx_map[1].start_time),
             task_ctx_map[1].budget_ns)
    /\ U64Gt(clock, task_ctx_map[1].deadline)
    /\ misses = 1
    /\ Len(deadline_events) = 1
    /\ deadline_events[1].timestamp = clock

(* C26: an enqueue that obtains a context leaves in it valid = 1,          *)
(* start_time = 0, the safe budget of its cgroup and the deadline computed *)
(* from it; a running callback on a valid context changes its start_time,  *)
(* to the clock value, and nothing else; a stopping call with runnable set *)
(* leaves the context in the map with valid, deadline and budget_ns as     *)
(* they were                                                               *)
C26_ContextFieldLifecycle ==
    /\ [][\A cpu \in Cpus, pid \in StopTids :
             (Enqueue(cpu, pid, 1) /\ pid \in DOMAIN task_ctx_map')
             => LET known == 1 \in DOMAIN slo_map
                    budget == IF known /\ InRange(slo_map[1])
                              THEN slo_map[1].budget_ns
                              ELSE U64Mul(U64(NSEC_PER_MSEC), 100)
                    imp == IF known THEN Clamp(slo_map[1].importance) ELSE 50
                IN  task_ctx_map'[pid] =
                        [valid |-> 1, start_time |-> U64(0),
                         budget_ns |-> budget,
                         deadline |-> SatAdd(clock, Eff(budget, imp))]]_vars
    /\ [][\A pid \in StopTids :
             (/\ Running(pid)
              /\ pid \in DOMAIN task_ctx_map
              /\ task_ctx_map[pid].valid # 0)
             => /\ DOMAIN task_ctx_map' = DOMAIN task_ctx_map
                /\ task_ctx_map'[pid].start_time = clock
                /\ task_ctx_map'[pid].valid = task_ctx_map[pid].valid
                /\ task_ctx_map'[pid].deadline = task_ctx_map[pid].deadline
                /\ task_ctx_map'[pid].budget_ns =
                       task_ctx_map[pid].budget_ns]_vars
    /\ [][\A cpu \in Cpus, pid \in StopTids :
             (Stopping(cpu, pid, 1, TRUE, 0) /\ pid \in DOMAIN task_ctx_map)
             => /\ pid \in DOMAIN task_ctx_map'
                /\ task_ctx_map'[pid].valid = task_ctx_map[pid].valid
                /\ task_ctx_map'[pid].deadline = task_ctx_map[pid].deadline
                /\ task_ctx_map'[pid].budget_ns =
                       task_ctx_map[pid].budget_ns]_vars

(* C26: the task was enqueued at 1 s under a budget of 50 ms at importance *)
(* 90, put on a CPU 50 ms later and stopped, still runnable, after its     *)
(* deadline: the context holds the fields of the enqueue and the start     *)
(* time of the running callback                                            *)
C26_Witness ==
    /\ 1 \in DOMAIN task_ctx_map
    /\ task_ctx_map[1] =
           [valid |-> 1, budget_ns |-> ms_to_ns(50),
            deadline |-> U64Add(U64(NSEC_PER_SEC), U64(5500000)),
            start_time |-> U64Add(U64(NSEC_PER_SEC), ms_to_ns(50))]
    /\ clock = task_ctx_map[1].start_time
    /\ misses = 1
    /\ stopped = {}

(* C27: the set of pids that have an entry in task_ctx_map changes only by *)
(* an enqueue, which may add the pid enqueued, and by a stopping call with *)
(* runnable unset, which removes the pid stopped; a running callback for a *)
(* pid that has no context, like every other callback, leaves the set as   *)
(* it is                                                                   *)
C27_StoredTidsChangeByEnqueueAndFinalStopOnly ==
    [][DOMAIN task_ctx_map' # DOMAIN task_ctx_map
       => \E cpu \in Cpus, pid \in StopTids :
              \/ /\ Enqueue(cpu, pid, 1)
                 /\ DOMAIN task_ctx_map' = DOMAIN task_ctx_map \cup {pid}
              \/ /\ Stopping(cpu, pid, 1, FALSE, 0)
                 /\ DOMAIN task_ctx_map' = DOMAIN task_ctx_map \ {pid}]_vars

(* C28: a select_cpu call adds one to the local-dispatch counter of its    *)
(* CPU when the candidate CPU is idle and nothing otherwise, returns the   *)
(* candidate either way, and leaves slo_map, task_ctx_map, the limiter's   *)
(* state and the global-enqueue counters as they were                      *)
C28_SelectCpuCountsIdleOnly ==
    [][\A cpu \in CountCpus, dfl \in CountCpus, is_idle \in BOOLEAN :
          SelectCpu(cpu, dfl, is_idle)
          => /\ stats'[cpu][0] = stats[cpu][0] + (IF is_idle THEN 1 ELSE 0)
             /\ \A c \in CountCpus \ {cpu} : stats'[c][0] = stats[c][0]
             /\ \A c \in CountCpus : stats'[c][1] = stats[c][1]
             /\ host'.ret = dfl
             /\ slo_map' = slo_map
             /\ task_ctx_map' = task_ctx_map
             /\ rate_limit_state' = rate_limit_state]_vars

(* C28: with a task context and a configuration stored, select_cpu was     *)
(* called once with an idle candidate, on CPU 0, and last with CPU 1 as    *)
(* the candidate, not idle                                                 *)
C28_Witness ==
    /\ host.idle_selects = 1
    /\ host.ret = 1
    /\ stats[0][0] = 1
    /\ stats[1][0] = 0
    /\ 1 \in DOMAIN task_ctx_map
    /\ 1 \in DOMAIN slo_map
    /\ agent.last_local_dispatches = 1

(* C29: at every moment the global-enqueue counters of the CPUs sum to the *)
(* number of enqueue calls made, on the context path and on the fallback   *)
(* path alike, and the local-dispatch counters to the number of select_cpu *)
(* calls that found an idle CPU; the agent's read of the statistics        *)
(* leaves these two sums in its counters                                   *)
C29_ShardedCountersSumToCalls ==
    /\ [](/\ stats[0][1] + stats[1][1] = host.enqueues
           /\ stats[0][0] + stats[1][0] = host.idle_selects)
    /\ [][ReadStats
           => /\ agent'.last_global_dispatches = host.enqueues
              /\ agent'.last_local_dispatches = host.idle_selects]_vars

(* C29: three enqueues, two on CPU 0 and one on CPU 1, one of them of a    *)
(* task that got no context, and two idle select_cpu calls, one on each    *)
(* CPU; the agent has read 3 and 2                                         *)
C29_Witness ==
    /\ host.enqueues = 3
    /\ stats[0][1] = 2
    /\ stats[1][1] = 1
    /\ DOMAIN task_ctx_map = {1}
    /\ \E i \in 1..Len(dsq) : dsq[i].pid = 2 /\ ~dsq[i].priq
    /\ host.idle_selects = 2
    /\ stats[0][0] = 1
    /\ stats[1][0] = 1
    /\ agent.last_global_dispatches = 3
    /\ agent.last_local_dispatches = 2

(* the context get_task_ctx stores for a pid that has none *)
Zeroed ==
    [deadline |-> U64(0), start_time |-> U64(0), budget_ns |-> U64(0),
     valid |-> 0]

(* C21: get_task_ctx returns NULL only when task_ctx_map holds MAX_TASKS   *)
(* entries, none of them of the pid, at the moment it tries to store the   *)
(* new context; in every other state, whatever contexts the callbacks of   *)
(* another CPU create and remove between its steps, it returns the context *)
(* the pid had at the lookup, or the entry the pid has after the store:    *)
(* the zeroed context, or the one an enqueue has made of it since          *)
C21_NoContextOnlyAtCapacity ==
    /\ [][\A pid \in Tids :
             (EnableLookup(0, pid) /\ pid \in DOMAIN task_ctx_map)
             => v_res' = [pid |-> pid, ctx |-> Ptr(task_ctx_map[pid])]]_vars
    /\ [][EnableUpdate(0)
           => LET pid == inflight[0].pid
                  full == /\ pid \notin DOMAIN task_ctx_map
                          /\ Held(task_ctx_map, others.task) >= MAX_TASKS
              IN  IF full
                  THEN /\ v_res' = [pid |-> pid, ctx |-> NULL]
                       /\ inflight'[0] = Idle
                       /\ task_ctx_map' = task_ctx_map
                  ELSE /\ inflight'[0].op = "relookup"
                       /\ pid \in DOMAIN task_ctx_map'
                       /\ task_ctx_map'[pid] = Zeroed]_vars
    /\ [][EnableRelookup(0)
           => LET pid == inflight[0].pid
              IN  /\ pid \in DOMAIN task_ctx_map
                  /\ v_res' = [pid |-> pid, ctx |-> Ptr(task_ctx_map[pid])]
                  /\ \/ task_ctx_map[pid] = Zeroed
                     \/ task_ctx_map[pid].valid = 1]_vars

(* what a GET of /health is answered in the current state: 0 when no      *)
(* thread is there to accept the connection                                *)
HealthAnswer ==
    IF main.thread = "polling"
    THEN handle_http_request("GET", "/health", main.scheduler_attached)
    ELSE 0

(* C24, as stated: at every moment of the agent's life a GET of /health is *)
(* answered 200 when the scheduler is attached, from the attach to the     *)
(* start of cleanup, and 503 otherwise                                     *)
C24_HealthFollowsAttachmentAtAllTimes ==
    HealthAnswer = IF main.scheduler_attached # 0 THEN 200 ELSE 503

(* C24, amended: the flag scheduler_attached is set from the successful    *)
(* attach to the start of cleanup; the health server answers only from its *)
(* start, after the attach, to its stop in cleanup; every answer to a GET  *)
(* of /health, /healthz, /ready or /readyz is 200 when the flag is set and *)
(* 503 when it is not, and a 503 is sent only between the start of cleanup *)
(* and the stop of the server                                              *)
C24_HealthAnswersFollowFlagWhileServing ==
    /\ [](main.scheduler_attached # 0 <=> main.pc \in {"attached", "loop"})
    /\ [](main.thread = "polling" => main.pc \in {"loop", "cleanup"})
    /\ [][\A path \in HealthPaths :
             HealthRequest("GET", path)
             => /\ v_res'.status =
                       IF main.scheduler_attached # 0 THEN 200 ELSE 503
                /\ v_res'.status = 503 => main.pc = "cleanup"]_vars

(* C24: a GET of /ready was answered 503 during a cleanup, and the agent   *)
(* has restarted since: the scheduler is attached and the server polling   *)
C24_Witness ==
    /\ v_res = [method |-> "GET", path |-> "/ready", status |-> 503]
    /\ main.pc = "loop"
    /\ main.scheduler_attached = 1
    /\ main.thread = "polling"

(* C31: the miss events of one task lie in the ring in the order of the    *)
(* stopping calls that produced them: a stopping call puts its event       *)
(* behind every event that is in the ring, and no event of the ring has a  *)
(* timestamp greater than that of an event behind it                       *)
C31_EventsInStoppingOrder ==
    /\ [][\A cpu \in Cpus, pid \in StopTids, cg_id \in Wids,
             runnable \in BOOLEAN, later \in {0, 1} :
             (Stopping(cpu, pid, cg_id, runnable, later) /\ Emitted)
             => /\ SubSeq(deadline_events', 1, Len(deadline_events))
                       = deadline_events
                /\ deadline_events'[Len(deadline_events')].timestamp = clock]_vars
    /\ [](\A i, j \in 1..Len(deadline_events) :
              i < j => U64Le(deadline_events[i].timestamp,
                             deadline_events[j].timestamp))

(* C31: two stopping calls of the task, the second 1 ns after the first,   *)
(* have each left an event; the earlier one is the first of the ring       *)
C31_Witness ==
    /\ Len(deadline_events) = 2
    /\ misses = 2
    /\ U64Add(deadline_events[1].timestamp, U64(1)) =
           deadline_events[2].timestamp
    /\ deadline_events[2].timestamp = clock

(* C32: a stopping call reads and writes the limiter state of the CPU it   *)
(* runs on and of no other: the states of the other CPUs are left as they  *)
(* were, and whether the call's miss is let through depends on the count   *)
(* and the window of its own CPU alone, so that one CPU's limiter can be   *)
(* used up while another's still lets events through                       *)
C32_LimiterStateIsPerCpu ==
    [][\A cpu \in LimitCpus, pid \in StopTids :
          Stopping(cpu, pid, 1, TRUE, 0)
          => /\ \A c \in LimitCpus \ {cpu} :
                    rate_limit_state'[c] = rate_limit_state[c]
             /\ (/\ pid \in DOMAIN task_ctx_map
                 /\ task_ctx_map[pid].valid # 0
                 /\ U64Gt(clock, task_ctx_map[pid].deadline))
                => LET st == rate_limit_state[cpu]
                       opens == U64Gt(U64Sub(clock, st.window_start),
                                      U64(NSEC_PER_SEC))
                       count == IF opens THEN 0 ELSE st.event_count
                       start == IF opens THEN clock ELSE st.window_start
                   IN  IF count >= 1000
                       THEN /\ deadline_events' = deadline_events
                            /\ rate_limit_state'[cpu] =
                                   [event_count |-> count,
                                    window_start |-> start]
                       ELSE /\ Len(deadline_events) < MaxRingRecords
                                   => Emitted
                            /\ rate_limit_state'[cpu] =
                                   [event_count |-> count + 1,
                                    window_start |-> start]]_vars

(* C32: CPU 0 has used up its window, the last miss stopped there went     *)
(* unreported, and a miss stopped on CPU 1 in the same window has left its *)
(* event in the ring                                                       *)
C32_Witness ==
    /\ rate_limit_state[0] = [event_count |-> 1000,
                              window_start |-> U64(NSEC_PER_SEC)]
    /\ rate_limit_state[1].event_count = 1
    /\ rate_limit_state[1].window_start = clock
    /\ misses = 3
    /\ Len(deadline_events) = 1
    /\ deadline_events[1].timestamp = clock

(* what a file leaves behind when each of its lines is handled whole *)
RECURSIVE LoadedLineByLine(_, _)
LoadedLineByLine(lines, acc) ==
    IF lines = <<>> THEN acc
    ELSE LoadedLineByLine(Tail(lines),
             load_slo_config_line(acc.map, acc.entries_loaded,
                                  Head(lines) \o <<"nl">>))

(* C33: when load_slo_config has returned, a file that could not be opened *)
(* has written nothing and returned 0 if it is missing and -1 otherwise;   *)
(* a file that was read has written exactly the entries of its lines that  *)
(* are no comment, not empty, parse into three fields, pass validation,    *)
(* resolve to a cgroup id other than 0 and whose map update succeeds, each *)
(* other line being skipped, and has returned the number of entries written *)
C33_LoadWritesValidLinesAndCountsThem ==
    v_cfg.at = "returned" =>
        IF v_cfg.errno = "ENOENT" THEN v_res.ret = 0 /\ slo_map = <<>>
        ELSE IF v_cfg.errno # "" THEN v_res.ret = -1 /\ slo_map = <<>>
        ELSE LET want == LoadedLineByLine(v_cfg.lines,
                             [map |-> <<>>, entries_loaded |-> 0])
             IN  v_res.ret = want.entries_loaded /\ slo_map = want.map

(* C34: the event count of every CPU's limiter is at most                  *)
(* MAX_EVENTS_PER_SEC, and a step in which a count goes down (the reset to *)
(* 0, followed in the same call by the count of that call) sets that       *)
(* CPU's window_start to the clock value of the step                       *)
C34_CountBoundedAndResetWithWindowStart ==
    /\ [](\A c \in DOMAIN rate_limit_state :
              rate_limit_state[c].event_count <= MAX_EVENTS_PER_SEC)
    /\ [][\A c \in DOMAIN rate_limit_state :
              rate_limit_state'[c].event_count
                  < rate_limit_state[c].event_count
              => /\ rate_limit_state'[c].window_start = clock
                 /\ rate_limit_state'[c].event_count = 1]_vars

(* a limiter that was reset has counted up to the limit again and has just *)
(* refused a call                                                          *)
C34_Witness ==
    /\ rate_limit_state[0].window_start # U64(0)
    /\ rate_limit_state[0].event_count = MAX_EVENTS_PER_SEC
    /\ rl_obs[0].last = "denied"

(* a * k does not fit 64 bits *)
MulOverflows(a, k) ==
    LET p4 == a[4] * k
        p3 == a[3] * k + (p4 \div Limb)
        p2 == a[2] * k + (p3 \div Limb)
        p1 == a[1] * k + (p2 \div Limb)
    IN  p1 >= Limb

(* C35: whatever slo_map holds, every context with valid = 1 has a         *)
(* budget_ns within MIN_BUDGET_NS .. MAX_BUDGET_NS, whose product with any *)
(* scaling factor 101 - importance (1 .. 100) fits 64 bits; and the        *)
(* deadline d an enqueue at clock value t stores with that budget is       *)
(* U64_MAX or has budget_ns / 100 <= d - t <= budget_ns, and is never      *)
(* below t                                                                 *)
C35_ValidContextBudgetAndDeadlineBounds ==
    /\ [](\A pid \in DOMAIN task_ctx_map :
              task_ctx_map[pid].valid = 1
              => /\ U64Le(MIN_BUDGET_NS, task_ctx_map[pid].budget_ns)
                 /\ U64Le(task_ctx_map[pid].budget_ns, MAX_BUDGET_NS)
                 /\ \A factor \in {1, 100} :
                        ~MulOverflows(task_ctx_map[pid].budget_ns, factor))
    /\ [][\A cpu \in Cpus, pid \in Tids, cg_id \in Wids :
              (Enqueue(cpu, pid, cg_id) /\ pid \in DOMAIN task_ctx_map')
              => LET ctx == task_ctx_map'[pid]
                     d == ctx.deadline
                 IN  /\ ctx.valid = 1
                     /\ U64Le(clock, d)
                     /\ \/ d = U64_MAX
                        \/ /\ U64Le(U64Div(ctx.budget_ns, 100),
                                    U64Sub(d, clock))
                           /\ U64Le(U64Sub(d, clock), ctx.budget_ns)]_vars

(* a task enqueued under an entry that fails validation in both fields:    *)
(* its context has the default budget and the deadline of importance 100   *)
C35_Witness ==
    /\ 1 \in DOMAIN slo_map
    /\ slo_map[1].budget_ns = ms_to_ns(20000)
    /\ slo_map[1].importance = 101
    /\ 1 \in DOMAIN task_ctx_map
    /\ task_ctx_map[1].valid = 1
    /\ task_ctx_map[1].budget_ns = DEFAULT_BUDGET_NS
    /\ task_ctx_map[1].deadline =
           U64Add(clock, U64Div(DEFAULT_BUDGET_NS, 100))

(* C36: a stopping call that finds no context, a context with valid = 0,   *)
(* or a clock value not above the stored deadline leaves the limiter state *)
(* of every CPU and the event ring as they were                            *)
C36_NoMissLeavesLimiterAndRingAlone ==
    [][\A cpu \in Cpus, pid \in StopTids, cg_id \in Wids,
         runnable \in BOOLEAN, later \in {0, 1} :
          (/\ Stopping(cpu, pid, cg_id, runnable, later)
           /\ \/ pid \notin DOMAIN task_ctx_map
              \/ task_ctx_map[pid].valid = 0
              \/ U64Le(clock, task_ctx_map[pid].deadline))
          => /\ rate_limit_state' = rate_limit_state
             /\ deadline_events' = deadline_events]_vars

(* a task was enqueued and has stopped for good with no miss ever detected, *)
(* at a clock value at which a call of the limiter would have opened a new  *)
(* window: the limiter still has its first window                           *)
C36_Witness ==
    /\ stopped = {1}
    /\ 1 \notin DOMAIN task_ctx_map
    /\ host.enqueues >= 1
    /\ misses = 0
    /\ ticks >= 1
    /\ rate_limit_state[0] = [event_count |-> 0, window_start |-> U64(0)]
    /\ deadline_events = <<>>

(* the deadline a miss event was emitted against *)
DeadlineOf(event) == U64Sub(event.timestamp, event.deadline_miss_ns)

(* C37: one task, whose every enqueue sets a deadline later than the ones  *)
(* before: no two miss events are emitted against the same deadline, each  *)
(* enqueue giving rise to one event at most                                *)
C37_OneEventPerEnqueue ==
    \A i, j \in DOMAIN deadline_events :
        i < j => DeadlineOf(deadline_events[i]) # DeadlineOf(deadline_events[j])

(* the tasks that are Runnable or Running: those whose last callback was   *)
(* not a stop with runnable = false                                        *)
Live == Tids \ stopped

(* C38: every entry of task_ctx_map is the context of a task that is       *)
(* Runnable or Running, so the map never holds more entries than there are *)
(* such tasks                                                              *)
C38_ContextsOfLiveTasksOnly ==
    /\ DOMAIN task_ctx_map \subseteq Live
    /\ Cardinality(DOMAIN task_ctx_map) <= Cardinality(Live)

(* C39: when handle_metrics_request has copied the four counters, the      *)
(* (misses, miss_duration) pair it holds is the one left by a whole number *)
(* of handled events, with no event counted and not yet added, and the     *)
(* (local, global) pair it holds is the one a single read_stats pass       *)
(* stored, whatever the main thread and the scheduler did meanwhile        *)
C39_MetricsReadsWholeEventsAndOnePass ==
    thr.http_pc = "global"
    => /\ <<thr.misses, thr.miss_duration>> = thr.total
       /\ <<thr.local, thr.global>> = thr.pass

(* a request has copied the counters while the main thread, with one event *)
(* and one pass behind it, waits for the lock with a second event in hand  *)
(* or new sums in hand                                                     *)
C39_Witness ==
    /\ thr.http_pc = "global"
    /\ thr.lock = "http"
    /\ thr.misses = 1
    /\ thr.local = 1
    /\ thr.global = 1
    /\ thr.main_pc = "stats_1"
    /\ thr.stats # thr.pass

====
